---- MODULE Spec2Model ----
(***************************************************************************)
(* Narration queue of twitch-tts-help: QueueManager (services/             *)
(* QueueManager.ts) driving TTSService (services/TTSService.ts), which     *)
(* drives the browser's speechSynthesis engine.                            *)
(*                                                                         *)
(* Everything runs on one event loop.  A handler and all the calls it      *)
(* makes synchronously form one step of the model.  The continuation of    *)
(* processNext after a rejected `await` is a microtask (variable micro);   *)
(* setTimeout(() => processNext(), 0) is a pending timer (variable timers);*)
(* commands, engine callbacks and timers are tasks and only run when no    *)
(* microtask is pending.                                                   *)
(***************************************************************************)
EXTENDS Integers, Sequences, FiniteSets, TLC

\* ---------------------------------------------------------------- bounds
MaxItems == 3      \* messages explored: add() calls plus testSpeak() utterances
MaxTests == 1      \* how many of them may be testSpeak() utterances
MaxTimers == 2     \* pending setTimeout callbacks explored at once
MaxStale == 1      \* cancelled utterances with an undelivered event explored at once
MaxOld == 1        \* transports the client no longer references, with events still to come

\* ------------------------------------------------------------- constants
Null == 0          \* currentItem === null
TestId == -1       \* the id 'test' of testSpeak's queue item
ItemIds == 1..MaxItems

\* Sample chat texts: one that survives preprocessMessage and one that does
\* not ("@@@" has no word character, so every character becomes a space).
Texts == {"hello", "@@@"}

VARIABLES
    \* QueueManager
    queue,             \* this.queue: the backlog, items [id, text] in order
    currentItem,       \* this.currentItem: the id of the item, or Null
    isProcessing,      \* this.isProcessing
    status,            \* item id -> "none" | "pending" | "speaking" | "completed"
    nextId,            \* number of items created so far (ids are unique)
    \* TTSService
    currentUtterance,  \* this.currentUtterance: an utterance or NoUtterance
    enabled,           \* this.settings.enabled
    \* speechSynthesis (the browser engine)
    engineQ,           \* utterances handed to the engine, not ended/errored/cancelled
    speaking,          \* speechSynthesis.speaking
    stale,             \* cancelled utterances whose end/error event may still fire
    eager,             \* the engine reports `speaking` from speak() on (TRUE) or
                       \* only once it has begun to speak the utterance (FALSE)
    \* event loop
    timers,            \* pending setTimeout(() => this.processNext(), 0)
    micro,             \* pending catch continuations of processNext (item each awaited)
    \* observation
    speakLog,          \* items handed to TTSService.speak by processNext, in order
    lastUpdate,        \* the list carried by the latest queue:updated event
    tests              \* number of utterances made for testSpeak()

queueVars == <<queue, currentItem, isProcessing, status, nextId,
               currentUtterance, enabled, engineQ, speaking, stale, eager,
               timers, micro, speakLog, lastUpdate, tests>>

VARIABLES
    \* TwitchChatService
    ws,                      \* this.ws: state of the referenced transport, or "none"
    connectionStatus,        \* this.connectionStatus
    reconnectAttempts,       \* this.reconnectAttempts
    reconnectTimeout,        \* this.reconnectTimeout is non-null
    isReconnecting,          \* this.isReconnecting
    isIntentionalDisconnect, \* this.isIntentionalDisconnect
    \* environment
    old,                     \* transports no longer referenced: state -> how many
    rtimers                  \* pending reconnect timers [delay, cur]; cur: the one
                             \* this.reconnectTimeout refers to

chatVars == <<ws, connectionStatus, reconnectAttempts, reconnectTimeout,
              isReconnecting, isIntentionalDisconnect, old, rtimers>>

\* A function under test: its argument, whether it has been applied, and
\* what it returned.
VARIABLES arg, applied, result

funVars == <<arg, applied, result>>

\* The React state that ChatProvider, TTSProvider and ChatTTSIntegration keep.
VARIABLES
    messages,     \* chatState.messages of the last render: <<[id, msg]>>
    isConnected,  \* chatState.isConnected of the last render
    ttsSettings,  \* TTS state.settings of the last render
    pending,      \* actions dispatched and not rendered yet
    limitTimers,  \* pending setTimeout(LIMIT_MESSAGES, 0) callbacks
    emitted,      \* chat:message events delivered to the listener so far
    added,        \* ids of the messages passed to queueManager.add, in order
    batching      \* updates of one task are rendered together (React 18)
                  \* or each dispatch is rendered at once (legacy root)

wireVars == <<messages, isConnected, ttsSettings, pending, limitTimers, emitted,
              added, batching>>

vars == <<queueVars, chatVars, funVars, wireVars>>

\* ------------------------------------------------------------- helpers
Range(f) == {f[k] : k \in DOMAIN f}

Ev(n, i, l) == [name |-> n, item |-> i, list |-> l]

\* An utterance: the queue item it speaks and, for testSpeak, which call made it.
Utt(i, k) == [item |-> i, n |-> k]

NoUtterance == Utt(Null, 0)

\* The ids of a list of items.
ids(q) == [k \in DOMAIN q |-> q[k].id]

log(s, e) == [s EXCEPT !.trace = Append(@, e)]

\* The state the handlers read and write, as one record; trace collects the
\* calls and events of the handler being run, in order.
St == [queue |-> queue, currentItem |-> currentItem, isProcessing |-> isProcessing,
       status |-> status,
       currentUtterance |-> currentUtterance, enabled |-> enabled,
       engineQ |-> engineQ, speaking |-> speaking, stale |-> stale, eager |-> eager,
       timers |-> timers, micro |-> micro,
       speakLog |-> speakLog, lastUpdate |-> lastUpdate, tests |-> tests,
       trace |-> <<>>]

setQueue(s) ==
    /\ queue' = s.queue
    /\ currentItem' = s.currentItem
    /\ isProcessing' = s.isProcessing
    /\ status' = s.status
    /\ currentUtterance' = s.currentUtterance
    /\ enabled' = s.enabled
    /\ engineQ' = s.engineQ
    /\ speaking' = s.speaking
    /\ stale' = s.stale
    /\ eager' = s.eager
    /\ timers' = s.timers
    /\ micro' = s.micro
    /\ speakLog' = s.speakLog
    /\ lastUpdate' = s.lastUpdate
    /\ tests' = s.tests
    \* the exploration bounds
    /\ s.timers <= MaxTimers
    /\ Cardinality(s.stale) <= MaxStale

Commit(s) ==
    /\ setQueue(s)
    /\ UNCHANGED <<chatVars, funVars, wireVars>>

\* ------------------------------------------------- speechSynthesis engine
\* speechSynthesis.speak(utterance): the utterance joins the engine's queue.
\* An eager engine reports `speaking` while its queue is non-empty; the others
\* report it from the moment they begin to speak an utterance (EngineStart).
synthesisSpeak(s, u) ==
    [s EXCEPT !.engineQ = Append(@, u),
              !.speaking = IF s.eager THEN TRUE ELSE @]

\* speechSynthesis.cancel(): every utterance leaves the engine's queue; the
\* engine may still deliver an end or error event for each of them later.
synthesisCancel(s) ==
    [s EXCEPT !.stale = @ \cup Range(s.engineQ),
              !.engineQ = <<>>,
              !.speaking = FALSE]

\* The engine is done with the utterance at the head of its queue.
synthesisDequeue(s) ==
    [s EXCEPT !.engineQ = Tail(@),
              !.speaking = IF s.eager THEN Tail(s.engineQ) # <<>> ELSE FALSE]

\* ------------------------------------------------------------ TTSService
isSupported == TRUE

\* preprocessMessage on the sample texts: URLs -> 'link', runs of 3+ capitals
\* removed, characters outside [\w\s.,!?'-] -> ' ', blanks collapsed, trimmed.
preprocessMessage(t) ==
    CASE t = "hello" -> "hello"
      [] t = "@@@"   -> ""
      [] OTHER       -> t

isSpeaking(s) == s.speaking

stop(s) ==
    LET s1 == log(s, Ev("stop", Null, <<>>))
        s2 == IF s1.speaking THEN synthesisCancel(s1) ELSE s1
    IN  [s2 EXCEPT !.currentUtterance = NoUtterance]

\* ---------------------------------------------------------- QueueManager
RECURSIVE processNext(_), speak(_, _, _), handleTTSError(_, _)

\* (bug) the event carries the backlog without the active item
emitQueueUpdate_backlogOnly(s) ==
    [log(s, Ev("queue:updated", Null, ids(s.queue))) EXCEPT !.lastUpdate = ids(s.queue)]

emitQueueUpdate(s) ==
    LET fullQueue == IF s.currentItem # Null THEN <<s.currentItem>> \o ids(s.queue)
                                            ELSE ids(s.queue)
    IN  [log(s, Ev("queue:updated", Null, fullQueue)) EXCEPT !.lastUpdate = fullQueue]

\* queue.shift(): the item taken and the backlog left behind.
\* (bug) the newest item is taken instead of the oldest
shiftItem_newest(q) == q[Len(q)]

shiftItem(q) == Head(q)

shiftRest(q) == Tail(q)

\* (bug) an utterance is accepted while another one is current
speakOn_noBusyCheck(supported, s, i, t) ==
    IF ~supported \/ ~s.enabled
    THEN [s |-> s, ok |-> FALSE]
    ELSE IF preprocessMessage(t) = ""
    THEN \* thrown inside try: the catch emits tts:error and rethrows
         LET s1 == [s EXCEPT !.currentUtterance = NoUtterance]
             s2 == log(s1, Ev("tts:error", i, <<>>))
         IN  [s |-> handleTTSError(s2, i), ok |-> FALSE]
    ELSE LET u  == Utt(i, IF i = TestId THEN s.tests + 1 ELSE 0)
             s1 == [s EXCEPT !.currentUtterance = u,
                             !.tests = IF i = TestId THEN @ + 1 ELSE @]
             s2 == synthesisSpeak(s1, u)
         IN  [s |-> log(s2, Ev("tts:started", i, <<>>)), ok |-> TRUE]

\* TTSService.speak(queueItem) on a browser that supports speech synthesis
\* or one that does not; result [s, ok]: ok = FALSE is a rejected promise.
speakOn(supported, s, i, t) ==
    IF ~supported \/ ~s.enabled
    THEN [s |-> s, ok |-> FALSE]
    ELSE IF s.currentUtterance # NoUtterance
    THEN [s |-> s, ok |-> FALSE]
    ELSE IF preprocessMessage(t) = ""
    THEN \* thrown inside try: the catch emits tts:error and rethrows
         LET s1 == [s EXCEPT !.currentUtterance = NoUtterance]
             s2 == log(s1, Ev("tts:error", i, <<>>))
         IN  [s |-> handleTTSError(s2, i), ok |-> FALSE]
    ELSE LET u  == Utt(i, IF i = TestId THEN s.tests + 1 ELSE 0)
             s1 == [s EXCEPT !.currentUtterance = u,
                             !.tests = IF i = TestId THEN @ + 1 ELSE @]
             s2 == synthesisSpeak(s1, u)
         IN  [s |-> log(s2, Ev("tts:started", i, <<>>)), ok |-> TRUE]

speak(s, i, t) == speakOn(isSupported, s, i, t)

\* (bug) the resolution of the promise that speak() returns starts the next item
processNext_advancesOnResolve(s) ==
    IF s.isProcessing \/ s.queue = <<>>
    THEN s
    ELSE LET nextItem == shiftItem(s.queue)
             s1 == [s EXCEPT !.isProcessing = TRUE,
                             !.queue = shiftRest(@),
                             !.currentItem = nextItem.id,
                             !.status[nextItem.id] = "speaking"]
             s2 == emitQueueUpdate(s1)
             s3 == [log(s2, Ev("speak", nextItem.id, <<>>))
                       EXCEPT !.speakLog = Append(@, nextItem.id)]
             r  == speak(s3, nextItem.id, nextItem.text)
         IN  IF r.ok THEN processNext([r.s EXCEPT !.isProcessing = FALSE])
                     ELSE [r.s EXCEPT !.micro = Append(@, nextItem.id)]

processNext(s) ==
    IF s.isProcessing \/ s.queue = <<>>
    THEN s
    ELSE LET nextItem == shiftItem(s.queue)
             s1 == [s EXCEPT !.isProcessing = TRUE,
                             !.queue = shiftRest(@),
                             !.currentItem = nextItem.id,
                             !.status[nextItem.id] = "speaking"]
             s2 == emitQueueUpdate(s1)
             s3 == [log(s2, Ev("speak", nextItem.id, <<>>))
                       EXCEPT !.speakLog = Append(@, nextItem.id)]
             r  == speak(s3, nextItem.id, nextItem.text)
         IN  IF r.ok THEN r.s
                     ELSE [r.s EXCEPT !.micro = Append(@, nextItem.id)]

\* The catch block of processNext, run as a microtask after the rejection.
processNextCatch(s) ==
    LET s1 == IF s.currentItem # Null
              THEN [s EXCEPT !.status[s.currentItem] = "completed",
                             !.currentItem = Null]
              ELSE s
    IN  processNext([s1 EXCEPT !.isProcessing = FALSE])

handleTTSEnded(s, i) ==
    IF s.currentItem # Null /\ s.currentItem = i
    THEN processNext(emitQueueUpdate(
             [s EXCEPT !.status[s.currentItem] = "completed",
                       !.currentItem = Null,
                       !.isProcessing = FALSE]))
    ELSE s

handleTTSError(s, i) ==
    IF s.currentItem # Null /\ s.currentItem = i
    THEN processNext(emitQueueUpdate(
             [s EXCEPT !.status[s.currentItem] = "completed",
                       !.currentItem = Null,
                       !.isProcessing = FALSE]))
    ELSE s

\* utterance.onend / utterance.onerror of TTSService.setupUtteranceHandlers
onend(s, u) ==
    LET s1 == [s EXCEPT !.currentUtterance = NoUtterance]
    IN  handleTTSEnded(log(s1, Ev("tts:ended", u.item, <<>>)), u.item)

onerror(s, u) ==
    LET s1 == [s EXCEPT !.currentUtterance = NoUtterance]
    IN  handleTTSError(log(s1, Ev("tts:error", u.item, <<>>)), u.item)

\* item => item.id !== itemId
\* (bug) the test is inverted: only the named item is kept
filterOut_inverted(q, itemId) == SelectSeq(q, LAMBDA item : item.id = itemId)

filterOut(q, itemId) == SelectSeq(q, LAMBDA item : item.id # itemId)

\* QueueManager.add(message); the new item gets the next unused id.
add(s, id, t) ==
    LET s1 == [s EXCEPT !.queue = Append(@, [id |-> id, text |-> t]),
                        !.status[id] = "pending"]
        s2 == emitQueueUpdate(s1)
    IN  IF ~s2.isProcessing THEN [s2 EXCEPT !.timers = @ + 1] ELSE s2

\* (bug) queue:updated is emitted although nothing was removed
remove_emitsAlways(s, itemId) ==
    IF s.currentItem # Null /\ s.currentItem = itemId
    THEN LET s1 == IF isSpeaking(s) THEN stop(s) ELSE s
             s2 == emitQueueUpdate([s1 EXCEPT !.currentItem = Null,
                                              !.isProcessing = FALSE])
         IN  [s |-> [s2 EXCEPT !.timers = @ + 1], ret |-> TRUE]
    ELSE LET s1 == [s EXCEPT !.queue = filterOut(@, itemId)]
             wasRemoved == Len(s1.queue) < Len(s.queue)
         IN  [s |-> emitQueueUpdate(s1), ret |-> wasRemoved]

\* QueueManager.remove(itemId); result [s, ret].
remove(s, itemId) ==
    IF s.currentItem # Null /\ s.currentItem = itemId
    THEN LET s1 == IF isSpeaking(s) THEN stop(s) ELSE s
             s2 == emitQueueUpdate([s1 EXCEPT !.currentItem = Null,
                                              !.isProcessing = FALSE])
         IN  [s |-> [s2 EXCEPT !.timers = @ + 1], ret |-> TRUE]
    ELSE LET s1 == [s EXCEPT !.queue = filterOut(@, itemId)]
             wasRemoved == Len(s1.queue) < Len(s.queue)
         IN  [s |-> IF wasRemoved THEN emitQueueUpdate(s1) ELSE s1,
              ret |-> wasRemoved]

\* (bug) only the oldest pending item is dropped
clear_dropsHead(s) ==
    LET s1 == IF s.currentItem # Null /\ isSpeaking(s) THEN stop(s) ELSE s
        s2 == [s1 EXCEPT !.queue = IF @ = <<>> THEN @ ELSE Tail(@),
                         !.currentItem = Null, !.isProcessing = FALSE]
    IN  emitQueueUpdate(log(s2, Ev("queue:cleared", Null, <<>>)))

\* QueueManager.clear()
clear(s) ==
    LET s1 == IF s.currentItem # Null /\ isSpeaking(s) THEN stop(s) ELSE s
        s2 == [s1 EXCEPT !.queue = <<>>, !.currentItem = Null,
                         !.isProcessing = FALSE]
    IN  emitQueueUpdate(log(s2, Ev("queue:cleared", Null, <<>>)))

\* (bug) the skipped item is not marked completed
skip_statusKept(s) ==
    IF s.currentItem = Null \/ ~isSpeaking(s)
    THEN [s |-> s, ret |-> FALSE]
    ELSE [s |-> processNext([stop(s) EXCEPT !.currentItem = Null]), ret |-> TRUE]

\* QueueManager.skip(); result [s, ret].
skip(s) ==
    IF s.currentItem = Null \/ ~isSpeaking(s)
    THEN [s |-> s, ret |-> FALSE]
    ELSE LET s1 == stop(s)
             s2 == [s1 EXCEPT !.status[s.currentItem] = "completed",
                              !.currentItem = Null]
         IN  [s |-> processNext(s2), ret |-> TRUE]

\* QueueManager.pause()
pause(s) ==
    LET s1 == IF s.currentItem # Null /\ isSpeaking(s) THEN stop(s) ELSE s
    IN  [s1 EXCEPT !.isProcessing = FALSE]

\* (bug) the item that pause() stopped is put back and narrated again
resume_requeuesCurrent(s) ==
    IF ~s.isProcessing /\ (Len(s.queue) > 0 \/ s.currentItem # Null)
    THEN processNext(IF s.currentItem # Null
                     THEN [s EXCEPT !.queue = <<[id |-> s.currentItem, text |-> "hello"]>> \o @]
                     ELSE s)
    ELSE s

\* QueueManager.resume()
resume(s) ==
    IF ~s.isProcessing /\ (Len(s.queue) > 0 \/ s.currentItem # Null)
    THEN processNext(s)
    ELSE s

\* TTSService.updateSettings({enabled: e})
updateSettings(s, e) ==
    LET s1 == [s EXCEPT !.enabled = e]
    IN  IF e = FALSE THEN stop(s1) ELSE s1

\* TTSService.testSpeak(text); the caller, not the queue, sees a rejection.
testSpeak(s, t) ==
    IF ~isSupported THEN s ELSE speak(s, TestId, t).s


\* ---------------------------------------------------------------- Init
\* The states of a transport that can still deliver an event: connecting;
\* open; failing (close() was called before it opened: error, then close);
\* errored (error delivered, close to come); closing (close() was called on
\* an open transport: close to come).
LiveStates == {"connecting", "open", "failing", "errored", "closing"}

ChatInit ==
    /\ ws = "none"
    /\ connectionStatus = "disconnected"
    /\ reconnectAttempts = 0
    /\ reconnectTimeout = FALSE
    /\ isReconnecting = FALSE
    /\ isIntentionalDisconnect = FALSE
    /\ old = [st \in LiveStates |-> 0]
    /\ rtimers = <<>>

\* No function is under test.
FunIdle ==
    /\ arg = <<>>
    /\ applied = FALSE
    /\ result = <<>>

QueueInit ==
    /\ queue = <<>>
    /\ currentItem = Null
    /\ isProcessing = FALSE
    /\ status = [i \in ItemIds |-> "none"]
    /\ nextId = 0
    /\ currentUtterance = NoUtterance
    /\ enabled \in BOOLEAN
    /\ engineQ = <<>>
    /\ speaking = FALSE
    /\ stale = {}
    /\ eager \in BOOLEAN
    /\ timers = 0
    /\ micro = <<>>
    /\ speakLog = <<>>
    /\ lastUpdate = <<>>
    /\ tests = 0

\* TTSContext.tsx: defaultSettings (the fields the filter reads).
defaultSettings ==
    [enabled |-> FALSE, filterBots |-> TRUE, minMessageLength |-> 3,
     blockedUsers |-> <<>>, skipEmoteOnly |-> TRUE]

\* The providers have mounted: initialState of both reducers; nothing has
\* been dispatched.
WireInit ==
    /\ messages = <<>>
    /\ isConnected = FALSE
    /\ pending = <<>>
    /\ limitTimers = 0
    /\ emitted = 0
    /\ added = <<>>

WireIdle == WireInit /\ ttsSettings = defaultSettings /\ batching = TRUE

Init ==
    /\ ChatInit
    /\ QueueInit
    /\ FunIdle
    /\ WireIdle

\* ------------------------------------------------------- public commands
\* The ids a caller can pass: those of the items made so far and one that
\* no item has.
KnownIds == 1..(IF nextId < MaxItems THEN nextId + 1 ELSE MaxItems)

Add ==
    /\ micro = <<>>
    /\ nextId + tests < MaxItems
    /\ \E t \in Texts : Commit(add(St, nextId + 1, t))
    /\ nextId' = nextId + 1

Remove ==
    /\ micro = <<>>
    /\ \E itemId \in KnownIds : Commit(remove(St, itemId).s)
    /\ UNCHANGED nextId

Clear ==
    /\ micro = <<>>
    /\ Commit(clear(St))
    /\ UNCHANGED nextId

Skip ==
    /\ micro = <<>>
    /\ Commit(skip(St).s)
    /\ UNCHANGED nextId

Pause ==
    /\ micro = <<>>
    /\ Commit(pause(St))
    /\ UNCHANGED nextId

Resume ==
    /\ micro = <<>>
    /\ Commit(resume(St))
    /\ UNCHANGED nextId

UpdateSettings ==
    /\ micro = <<>>
    /\ \E e \in BOOLEAN : Commit(updateSettings(St, e))
    /\ UNCHANGED nextId

TestSpeak ==
    /\ micro = <<>>
    /\ tests < MaxTests
    /\ nextId + tests < MaxItems
    /\ \E t \in Texts : Commit(testSpeak(St, t))
    /\ UNCHANGED nextId

\* ------------------------------------------------------------ event loop
\* A pending setTimeout(() => this.processNext(), 0) fires.
timerFires(s) == processNext([s EXCEPT !.timers = @ - 1])

Timer ==
    /\ micro = <<>>
    /\ timers > 0
    /\ Commit(timerFires(St))
    /\ UNCHANGED nextId

\* The rejection of the awaited speak() promise reaches processNext's catch.
rejectionRuns(s) == processNextCatch([s EXCEPT !.micro = Tail(@)])

Rejection ==
    /\ micro # <<>>
    /\ Commit(rejectionRuns(St))
    /\ UNCHANGED nextId

\* The engine begins to speak the utterance at the head of its queue.
EngineStart ==
    /\ micro = <<>>
    /\ ~eager /\ ~speaking /\ engineQ # <<>>
    /\ Commit([St EXCEPT !.speaking = TRUE])
    /\ UNCHANGED nextId

\* The engine finishes the utterance it is speaking: utterance.onend.
engineEnds(s) == onend(synthesisDequeue(s), Head(s.engineQ))

EngineEnd ==
    /\ micro = <<>>
    /\ speaking /\ engineQ # <<>>
    /\ Commit(engineEnds(St))
    /\ UNCHANGED nextId

\* The engine fails on the utterance at the head of its queue: utterance.onerror.
engineFails(s) == onerror(synthesisDequeue(s), Head(s.engineQ))

EngineError ==
    /\ micro = <<>>
    /\ engineQ # <<>>
    /\ Commit(engineFails(St))
    /\ UNCHANGED nextId

\* The end event of an utterance that cancel() removed arrives late.
staleEnds(s, u) == onend([s EXCEPT !.stale = @ \ {u}], u)

StaleEnd ==
    /\ micro = <<>>
    /\ \E u \in stale : Commit(staleEnds(St, u))
    /\ UNCHANGED nextId

\* The error event of an utterance that cancel() removed arrives late.
staleFails(s, u) == onerror([s EXCEPT !.stale = @ \ {u}], u)

StaleError ==
    /\ micro = <<>>
    /\ \E u \in stale : Commit(staleFails(St, u))
    /\ UNCHANGED nextId

Next ==
    \/ Add
    \/ Remove
    \/ Clear
    \/ Skip
    \/ Pause
    \/ Resume
    \/ UpdateSettings
    \/ TestSpeak
    \/ Timer
    \/ Rejection
    \/ EngineStart
    \/ EngineEnd
    \/ EngineError
    \/ StaleEnd
    \/ StaleError

Spec == Init /\ [][Next]_vars

\* The runs in which no remove(), clear(), skip() or pause() is ever called.
NextFifo ==
    \/ Add
    \/ Resume
    \/ UpdateSettings
    \/ TestSpeak
    \/ Timer
    \/ Rejection
    \/ EngineStart
    \/ EngineEnd
    \/ EngineError
    \/ StaleEnd
    \/ StaleError

SpecFifo == Init /\ [][NextFifo]_vars

\* The runs on an engine that reports `speaking` from speak() on.
NextEager ==
    \/ Add
    \/ Remove
    \/ Clear
    \/ Skip
    \/ Pause
    \/ Resume
    \/ UpdateSettings
    \/ TestSpeak
    \/ Timer
    \/ Rejection
    \/ EngineEnd
    \/ EngineError
    \/ StaleEnd
    \/ StaleError

InitEager == Init /\ eager = TRUE

SpecEager == InitEager /\ [][NextEager]_vars

\* ====================================================================
\* TwitchChatService (services/QueueManager.ts, from line 364)
\* ====================================================================
maxReconnectAttempts == 10

baseReconnectDelay == 1000

maxReconnectDelay == 30000

\* A call or event of a chat handler: a name, a text and a number.
CEv(n, t, k) == [name |-> n, text |-> t, num |-> k]

\* The state the chat handlers read and write, as one record; trace collects
\* the calls and events of the handler being run, in order.
Ch == [ws |-> ws, connectionStatus |-> connectionStatus,
       reconnectAttempts |-> reconnectAttempts,
       reconnectTimeout |-> reconnectTimeout,
       isReconnecting |-> isReconnecting,
       isIntentionalDisconnect |-> isIntentionalDisconnect,
       old |-> old, rtimers |-> rtimers, trace |-> <<>>]

OldCount(c) ==
    c.old["connecting"] + c.old["open"] + c.old["failing"] + c.old["errored"]
      + c.old["closing"]

setChat(c) ==
    /\ ws' = c.ws
    /\ connectionStatus' = c.connectionStatus
    /\ reconnectAttempts' = c.reconnectAttempts
    /\ reconnectTimeout' = c.reconnectTimeout
    /\ isReconnecting' = c.isReconnecting
    /\ isIntentionalDisconnect' = c.isIntentionalDisconnect
    /\ old' = c.old
    /\ rtimers' = c.rtimers
    \* the exploration bound
    /\ OldCount(c) <= MaxOld

CommitChat(c) ==
    /\ setChat(c)
    /\ UNCHANGED <<queueVars, funVars, wireVars>>

\* ------------------------------------------------------------ WebSocket
\* this.ws is overwritten: the transport it referred to keeps its handlers
\* and, unless it has closed, can still deliver events.
dropWs(c) ==
    IF c.ws \in LiveStates
    THEN [c EXCEPT !.old[c.ws] = @ + 1, !.ws = "none"]
    ELSE [c EXCEPT !.ws = "none"]

\* new WebSocket(url) assigned to this.ws; the URL is a valid constant, so
\* the constructor does not throw.
newWebSocket(c) ==
    [log(dropWs(c), CEv("new WebSocket", "", 0)) EXCEPT !.ws = "connecting"]

\* this.ws.close()
wsClose(c) ==
    LET st == CASE c.ws = "connecting" -> "failing"
                [] c.ws = "open" -> "closing"
                [] OTHER -> c.ws
    IN  [log(c, CEv("ws.close", "", 0)) EXCEPT !.ws = st]

\* ------------------------------------------------------------- strings
\* A JavaScript string is the sequence of its characters, each a string of
\* length one.
WhiteSpace == {" ", "\t", "\r", "\n"}

\* s.substring(n), positions counted from 0
substring(s, n) == IF n >= Len(s) THEN <<>> ELSE SubSeq(s, n + 1, Len(s))

\* s.startsWith(p)
startsWith(s, p) == Len(s) >= Len(p) /\ SubSeq(s, 1, Len(p)) = p

\* s.trim()
RECURSIVE trimStart(_)
trimStart(s) ==
    IF s # <<>> /\ Head(s) \in WhiteSpace THEN trimStart(Tail(s)) ELSE s

RECURSIVE trimEnd(_)
trimEnd(s) ==
    IF s # <<>> /\ s[Len(s)] \in WhiteSpace
    THEN trimEnd(SubSeq(s, 1, Len(s) - 1))
    ELSE s

trim(s) == trimEnd(trimStart(s))

\* s.indexOf(p), positions counted from 1; 0 if p does not occur
indexOf(s, p) ==
    LET at == {k \in 1..(Len(s) - Len(p) + 1) : SubSeq(s, k, k + Len(p) - 1) = p}
    IN  IF at = {} THEN 0 ELSE CHOOSE k \in at : \A j \in at : k <= j

\* s.split(sep) for a non-empty separator: the pieces between its
\* occurrences, empty pieces included
RECURSIVE split(_, _)
split(s, sep) ==
    LET k == indexOf(s, sep)
    IN  IF k = 0
        THEN <<s>>
        ELSE <<SubSeq(s, 1, k - 1)>> \o split(substring(s, k - 1 + Len(sep)), sep)

\* s.includes(p)
includes(s, p) == p = <<>> \/ indexOf(s, p) # 0

CRLF ==
    <<"\r", "\n">>

PING ==
    <<"P", "I", "N", "G">>

PONG_ ==
    <<"P", "O", "N", "G", " ">>

CAP_REQ ==
    <<"C", "A", "P", " ", "R", "E", "Q", " ", ":", "t", "w", "i", "t",
      "c", "h", ".", "t", "v", "/", "t", "a", "g", "s", " ", "t", "w",
      "i", "t", "c", "h", ".", "t", "v", "/", "c", "o", "m", "m", "a",
      "n", "d", "s">>

PASS_ ==
    <<"P", "A", "S", "S", " ", "o", "a", "u", "t", "h", ":", "j", "u",
      "s", "t", "i", "n", "f", "a", "n", "1", "2", "3", "4", "5">>

NICK_ ==
    <<"N", "I", "C", "K", " ", "j", "u", "s", "t", "i", "n", "f", "a",
      "n", "1", "2", "3", "4", "5">>

\* `JOIN #${this.channel}`, for the channel of this client
JOIN_ ==
    <<"J", "O", "I", "N", " ", "#", "c", "h", "a", "n">>

\* --------------------------------------------------- TwitchChatService
RECURSIVE Pow2(_)
Pow2(n) == IF n = 0 THEN 1 ELSE 2 * Pow2(n - 1)

Min(a, b) == IF a < b THEN a ELSE b

emitChat(c, n, t) == log(c, CEv(n, t, 0))

setConnectionStatus(c, st) == [c EXCEPT !.connectionStatus = st]

sendRawMessage(c, m) ==
    IF c.ws = "open" THEN log(c, CEv("send", m \o CRLF, 0)) ELSE c

\* (bug) the reference is dropped but the timer is not cancelled
clearReconnectTimeout_keepsTimer(c) ==
    [c EXCEPT !.reconnectTimeout = FALSE, !.isReconnecting = FALSE]

clearReconnectTimeout(c) ==
    LET c1 == IF c.reconnectTimeout
              THEN [c EXCEPT !.rtimers = SelectSeq(@, LAMBDA t : ~t.cur),
                             !.reconnectTimeout = FALSE]
              ELSE c
    IN  [c1 EXCEPT !.isReconnecting = FALSE]

\* (bug) the delay is not capped
reconnectDelay_uncapped(attempts) == baseReconnectDelay * Pow2(attempts)

\* The delay of the next reconnect timer.
reconnectDelay(attempts) ==
    Min(baseReconnectDelay * Pow2(attempts), maxReconnectDelay)

\* (bug) the ceiling is not checked
scheduleReconnect_noCeiling(c) ==
    IF c.isReconnecting
    THEN c
    ELSE LET c1 == clearReconnectTimeout([c EXCEPT !.isReconnecting = TRUE])
             delay == reconnectDelay(c1.reconnectAttempts)
             held == [k \in DOMAIN c1.rtimers |-> [c1.rtimers[k] EXCEPT !.cur = FALSE]]
         IN  [log(c1, CEv("setTimeout", "", delay))
                 EXCEPT !.rtimers = Append(held, [delay |-> delay, cur |-> TRUE]),
                        !.reconnectTimeout = TRUE]

scheduleReconnect(c) ==
    IF c.reconnectAttempts >= maxReconnectAttempts
    THEN [emitChat(c, "chat:error", "Max reconnection attempts reached")
             EXCEPT !.isReconnecting = FALSE]
    ELSE IF c.isReconnecting
    THEN c
    ELSE LET c1 == clearReconnectTimeout([c EXCEPT !.isReconnecting = TRUE])
             delay == reconnectDelay(c1.reconnectAttempts)
             held == [k \in DOMAIN c1.rtimers |-> [c1.rtimers[k] EXCEPT !.cur = FALSE]]
         IN  [log(c1, CEv("setTimeout", "", delay))
                 EXCEPT !.rtimers = Append(held, [delay |-> delay, cur |-> TRUE]),
                        !.reconnectTimeout = TRUE]

\* (bug) the status is not checked
connect_unguarded(c) ==
    IF c.isIntentionalDisconnect
    THEN c
    ELSE LET c1 == [c EXCEPT !.isIntentionalDisconnect = FALSE]
         IN  newWebSocket(setConnectionStatus(c1, "connecting"))

connect(c) ==
    IF c.connectionStatus \in {"connecting", "connected"}
    THEN c
    ELSE IF c.isIntentionalDisconnect
    THEN c
    ELSE LET c1 == [c EXCEPT !.isIntentionalDisconnect = FALSE]
         IN  newWebSocket(setConnectionStatus(c1, "connecting"))

\* (bug) the pending reconnect timer is not cancelled
disconnect_keepsTimer(c) ==
    LET c1 == [c EXCEPT !.isIntentionalDisconnect = TRUE]
        c2 == IF c1.ws # "none" THEN dropWs(wsClose(c1)) ELSE c1
    IN  emitChat(setConnectionStatus(c2, "disconnected"), "chat:disconnected", "")

disconnect(c) ==
    LET c1 == clearReconnectTimeout([c EXCEPT !.isIntentionalDisconnect = TRUE])
        c2 == IF c1.ws # "none" THEN dropWs(wsClose(c1)) ELSE c1
    IN  emitChat(setConnectionStatus(c2, "disconnected"), "chat:disconnected", "")

TMI_PRIVMSG ==
    <<".", "t", "m", "i", ".", "t", "w", "i", "t", "c", "h", ".", "t",
      "v", " ", "P", "R", "I", "V", "M", "S", "G", " ", "#">>

BADGES ==
    <<"b", "a", "d", "g", "e", "s">>

BOT ==
    <<"b", "o", "t">>

\* The characters that . does not match in a regular expression.
LineTerminators == {"\n", "\r"}

\* c.toLowerCase() for one character
lowerChar(ch) ==
    CASE ch = "A" -> "a" [] ch = "B" -> "b" [] ch = "C" -> "c" [] ch = "D" -> "d"
      [] ch = "E" -> "e" [] ch = "F" -> "f" [] ch = "G" -> "g" [] ch = "H" -> "h"
      [] ch = "I" -> "i" [] ch = "J" -> "j" [] ch = "K" -> "k" [] ch = "L" -> "l"
      [] ch = "M" -> "m" [] ch = "N" -> "n" [] ch = "O" -> "o" [] ch = "P" -> "p"
      [] ch = "Q" -> "q" [] ch = "R" -> "r" [] ch = "S" -> "s" [] ch = "T" -> "t"
      [] ch = "U" -> "u" [] ch = "V" -> "v" [] ch = "W" -> "w" [] ch = "X" -> "x"
      [] ch = "Y" -> "y" [] ch = "Z" -> "z" [] OTHER -> ch

\* s.toLowerCase()
toLowerCase(s) == [k \in DOMAIN s |-> lowerChar(s[k])]

\* s.endsWith(p)
endsWith(s, p) == Len(s) >= Len(p) /\ SubSeq(s, Len(s) - Len(p) + 1, Len(s)) = p

\* The position of the first character of s that is in set S; 0 if none.
firstIn(s, S) ==
    LET at == {k \in DOMAIN s : s[k] \in S}
    IN  IF at = {} THEN 0 ELSE CHOOSE k \in at : \A j \in at : k <= j

NoMatch == [ok |-> FALSE]

\* line.match(/^@([^:]*):([^!]+)![^@]+@[^.]+\.tmi\.twitch\.tv PRIVMSG
\* #[^\s]+ :(.+)$/): every repetition is a run of characters that excludes
\* the character that must follow it, so each run ends at the first
\* occurrence of that character and the match is unique.
privmsgMatch(line) ==
    IF ~startsWith(line, <<"@">>) THEN NoMatch ELSE
    LET r1 == substring(line, 1)
        k1 == indexOf(r1, <<":">>)
    IN  IF k1 = 0 THEN NoMatch ELSE
    LET r2 == substring(r1, k1)
        k2 == indexOf(r2, <<"!">>)
    IN  IF k2 < 2 THEN NoMatch ELSE
    LET r3 == substring(r2, k2)
        k3 == indexOf(r3, <<"@">>)
    IN  IF k3 < 2 THEN NoMatch ELSE
    LET r4 == substring(r3, k3)
        k4 == indexOf(r4, <<".">>)
    IN  IF k4 < 2 THEN NoMatch ELSE
    LET r5 == substring(r4, k4 - 1)
    IN  IF ~startsWith(r5, TMI_PRIVMSG) THEN NoMatch ELSE
    LET r6 == substring(r5, Len(TMI_PRIVMSG))
        k6 == firstIn(r6, WhiteSpace)
    IN  IF k6 < 2 \/ ~startsWith(substring(r6, k6 - 1), <<" ", ":">>) THEN NoMatch ELSE
    LET r7 == substring(r6, k6 + 1)
    IN  IF r7 = <<>> \/ firstIn(r7, LineTerminators) # 0 THEN NoMatch ELSE
        [ok |-> TRUE,
         tagsString |-> SubSeq(r1, 1, k1 - 1),
         username |-> SubSeq(r2, 1, k2 - 1),
         message |-> r7]

\* parseTags: the <<key, value>> pairs assigned to the tags object, in the
\* order of assignment.
parseTags(tagsString) ==
    IF tagsString = <<>> THEN <<>> ELSE
    LET tags == split(tagsString, <<";">>)
        pairs == [k \in DOMAIN tags |-> split(tags[k], <<"=">>)]
        kept == SelectSeq(pairs, LAMBDA p : p[1] # <<>> /\ Len(p) >= 2)
    IN  [k \in DOMAIN kept |-> <<kept[k][1], kept[k][2]>>]

\* tags[key] || "": the value assigned last, the empty string if none.
tagOr(tags, key) ==
    LET at == {k \in DOMAIN tags : tags[k][1] = key}
    IN  IF at = {} THEN <<>> ELSE tags[CHOOSE k \in at : \A j \in at : j <= k][2]

parseBadges(badgesString) ==
    IF badgesString = <<>> THEN <<>> ELSE
    LET bs == split(badgesString, <<",">>)
        names == [k \in DOMAIN bs |-> split(bs[k], <<"/">>)[1]]
    IN  SelectSeq(names, LAMBDA n : n # <<>>)

\* The names of botPatterns that are matched whole (/^name$/i).
botNames ==
    {<<"n", "i", "g", "h", "t", "b", "o", "t">>,
     <<"s", "t", "r", "e", "a", "m", "l", "a", "b", "s">>,
     <<"s", "t", "r", "e", "a", "m", "e", "l", "e", "m", "e", "n", "t", "s">>,
     <<"m", "o", "o", "b", "o", "t">>,
     <<"f", "o", "s", "s", "a", "b", "o", "t">>}

\* (bug) the badges are not looked at
isUserBot_namesOnly(username, badges) ==
    \/ endsWith(toLowerCase(username), BOT)
    \/ toLowerCase(username) \in botNames

isUserBot(username, badges) ==
    \/ endsWith(toLowerCase(username), BOT)
    \/ toLowerCase(username) \in botNames
    \/ includes(badges, BOT)

\* The ChatMessage of a line, without its id and timestamp.
parseIRCMessage(line) ==
    LET m == privmsgMatch(line)
    IN  IF ~m.ok THEN NoMatch ELSE
        LET tags == parseTags(m.tagsString)
        IN  [ok |-> TRUE,
             username |-> m.username,
             message |-> m.message,
             isBot |-> isUserBot(m.username, tagOr(tags, BADGES)),
             badges |-> parseBadges(tagOr(tags, BADGES))]

\* handleMessage(data): the lines of the block, one after the other.
RECURSIVE handleLines(_, _)
handleLines(c, lines) ==
    IF lines = <<>> THEN c ELSE
    LET line == Head(lines)
        c1 == IF startsWith(line, PING)
              THEN sendRawMessage(c, PONG_ \o substring(line, 5))
              ELSE LET chatMessage == parseIRCMessage(line)
                   IN  IF chatMessage.ok
                       THEN emitChat(c, "chat:message", chatMessage)
                       ELSE c
    IN  handleLines(c1, Tail(lines))

handleMessage(c, data) == handleLines(c, split(trim(data), CRLF))

\* (bug) reconnectAttempts is not reset
handleConnectionOpen_keepsAttempts(c) ==
    LET c1 == sendRawMessage(c, CAP_REQ)
        c2 == sendRawMessage(c1, PASS_)
        c3 == sendRawMessage(c2, NICK_)
        c4 == sendRawMessage(c3, JOIN_)
    IN  emitChat(setConnectionStatus(c4, "connected"), "chat:connected", "")

handleConnectionOpen(c) ==
    LET c1 == sendRawMessage(c, CAP_REQ)
        c2 == sendRawMessage(c1, PASS_)
        c3 == sendRawMessage(c2, NICK_)
        c4 == sendRawMessage(c3, JOIN_)
        c5 == [c4 EXCEPT !.reconnectAttempts = 0]
    IN  emitChat(setConnectionStatus(c5, "connected"), "chat:connected", "")

handleConnectionClose(c) ==
    LET c1 == setConnectionStatus(dropWs(c), "disconnected")
        c2 == emitChat(c1, "chat:disconnected", "")
    IN  IF ~c2.isIntentionalDisconnect THEN scheduleReconnect(c2) ELSE c2

\* (bug) no reconnect is scheduled after an error
handleConnectionError_noReconnect(c) ==
    emitChat(setConnectionStatus(c, "error"), "chat:error", "connection")

handleConnectionError(c) ==
    LET c1 == emitChat(setConnectionStatus(c, "error"), "chat:error", "connection")
    IN  IF ~c1.isIntentionalDisconnect THEN scheduleReconnect(c1) ELSE c1

\* The reconnect timer's callback, with the finally() of the promise that
\* connect() returns: it runs as a microtask at the end of the same task.
reconnectTimerFires(c, k) ==
    LET c1 == [c EXCEPT !.rtimers = SubSeq(@, 1, k - 1) \o SubSeq(@, k + 1, Len(@)),
                        !.reconnectAttempts = @ + 1]
    IN  [connect(c1) EXCEPT !.isReconnecting = FALSE]

\* connect() when new WebSocket(...) throws: this.ws is not assigned and the
\* catch block reports the failure.
connectThrows(c) ==
    IF c.connectionStatus \in {"connecting", "connected"}
    THEN c
    ELSE IF c.isIntentionalDisconnect
    THEN c
    ELSE LET c1 == [c EXCEPT !.isIntentionalDisconnect = FALSE]
             c2 == log(setConnectionStatus(c1, "connecting"),
                       CEv("new WebSocket throws", "", 0))
         IN  handleConnectionError(c2)

\* The reconnect timer's callback when new WebSocket(...) throws inside its
\* connect(); the finally() runs after the catch block of connect().
reconnectTimerFiresThrows(c, k) ==
    LET c1 == [c EXCEPT !.rtimers = SubSeq(@, 1, k - 1) \o SubSeq(@, k + 1, Len(@)),
                        !.reconnectAttempts = @ + 1]
    IN  [connectThrows(c1) EXCEPT !.isReconnecting = FALSE]

\* ------------------------------------------------- chat: commands, events
Connect ==
    \E c \in {connect(Ch)} : CommitChat(c)

Disconnect ==
    \E c \in {disconnect(Ch)} : CommitChat(c)

\* An unreferenced transport changes state, or (to = "closed") is gone.
moveOld(c, from, to) ==
    IF to \in LiveStates
    THEN [c EXCEPT !.old[from] = @ - 1, !.old[to] = @ + 1]
    ELSE [c EXCEPT !.old[from] = @ - 1]

\* ws.onopen of the referenced transport.
wsOpens(c) == handleConnectionOpen([c EXCEPT !.ws = "open"])

WsOpen ==
    /\ ws = "connecting"
    /\ CommitChat(wsOpens(Ch))

\* ws.onopen of a transport that is no longer referenced.
oldWsOpens(c) == handleConnectionOpen(moveOld(c, "connecting", "open"))

OldWsOpen ==
    /\ old["connecting"] > 0
    /\ CommitChat(oldWsOpens(Ch))

\* ws.onerror of the referenced transport: the connection failed or broke.
wsErrors(c) == handleConnectionError([c EXCEPT !.ws = "errored"])

WsError ==
    /\ ws \in {"connecting", "open"}
    /\ CommitChat(wsErrors(Ch))

\* ws.onerror of a transport that is no longer referenced.
oldWsErrors(c, st) == handleConnectionError(moveOld(c, st, "errored"))

OldWsError ==
    \E st \in {"connecting", "open", "failing"} :
        /\ old[st] > 0
        /\ CommitChat(oldWsErrors(Ch, st))

\* ws.onclose of the referenced transport.
wsCloses(c) == handleConnectionClose([c EXCEPT !.ws = "closed"])

WsClose ==
    /\ ws \in {"open", "errored"}
    /\ CommitChat(wsCloses(Ch))

\* ws.onclose of a transport that is no longer referenced.
oldWsCloses(c, st) == handleConnectionClose(moveOld(c, st, "closed"))

OldWsClose ==
    \E st \in {"open", "errored", "closing"} :
        /\ old[st] > 0
        /\ CommitChat(oldWsCloses(Ch, st))

\* Inbound lines and data blocks.
PingLine ==
    <<"P", "I", "N", "G", " ", ":", "t", "m", "i", ".", "t", "w", "i",
      "t", "c", "h", ".", "t", "v">>

HelloLine ==
    <<"@", "b", "a", "d", "g", "e", "s", "=", "m", "o", "d", "e", "r",
      "a", "t", "o", "r", "/", "1", " ", ":", "a", "l", "i", "c", "e",
      "!", "a", "l", "i", "c", "e", "@", "a", "l", "i", "c", "e", ".",
      "t", "m", "i", ".", "t", "w", "i", "t", "c", "h", ".", "t", "v",
      " ", "P", "R", "I", "V", "M", "S", "G", " ", "#", "c", "h", "a",
      "n", " ", ":", "H", "e", "l", "l", "o", " ", "t", "h", "e", "r",
      "e">>

\* The data of one message event: lines, each ended by CR LF.
Block(lines) ==
    IF lines = <<>> THEN <<>>
    ELSE LET RECURSIVE join(_)
             join(ls) == IF ls = <<>> THEN <<>> ELSE Head(ls) \o CRLF \o join(Tail(ls))
         IN  join(lines)

DataBlocks ==
    {Block(<<PingLine>>), Block(<<HelloLine>>),
     Block(<<PingLine, HelloLine>>), Block(<<HelloLine, PingLine, HelloLine>>)}

\* ws.onmessage of the referenced transport.
wsMessage(c, data) == handleMessage(c, data)

WsMessage ==
    /\ ws = "open"
    /\ \E data \in DataBlocks : \E c \in {wsMessage(Ch, data)} : CommitChat(c)

\* ws.onmessage of a transport that is no longer referenced: it is open, or
\* closing and still receiving.
oldWsMessage(c, data) == handleMessage(c, data)

OldWsMessage ==
    /\ old["open"] + old["closing"] > 0
    /\ \E data \in DataBlocks : \E c \in {oldWsMessage(Ch, data)} : CommitChat(c)

ReconnectTimer ==
    \E k \in DOMAIN rtimers : CommitChat(reconnectTimerFires(Ch, k))

NextChat ==
    \/ Connect
    \/ Disconnect
    \/ WsOpen
    \/ OldWsOpen
    \/ WsError
    \/ OldWsError
    \/ WsClose
    \/ OldWsClose
    \/ WsMessage
    \/ OldWsMessage
    \/ ReconnectTimer

SpecChat == Init /\ [][NextChat]_vars

\* The runs in which the transport sometimes cannot be created.
ConnectThrows ==
    \E c \in {connectThrows(Ch)} : CommitChat(c)

ReconnectTimerThrows ==
    \E k \in DOMAIN rtimers : \E c \in {reconnectTimerFiresThrows(Ch, k)} : CommitChat(c)

NextChatThrows ==
    \/ Connect
    \/ ConnectThrows
    \/ Disconnect
    \/ WsOpen
    \/ OldWsOpen
    \/ WsError
    \/ OldWsError
    \/ WsClose
    \/ OldWsClose
    \/ ReconnectTimer
    \/ ReconnectTimerThrows

\* Timers fire, a transport that reported an error is closed, and the
\* transport can be created in the end.
SpecChatThrows ==
    /\ Init
    /\ [][NextChatThrows]_vars
    /\ WF_vars(ReconnectTimer)
    /\ WF_vars(WsClose)
    /\ WF_vars(OldWsClose)

\* ======================================================================
\* parseIRCMessage as a function under test
\* ======================================================================
\* The tags of an inbound line: their text, the value of the badges tag in
\* it and the names of its badges.
TagChoices ==
    {[text |-> <<"b", "a", "d", "g", "e", "s", "=", "m", "o", "d", "e", "r", "a", "t", "o", "r", "/", "1">>,
      badgesValue |-> <<"m", "o", "d", "e", "r", "a", "t", "o", "r", "/", "1">>,
      badges |-> <<<<"m", "o", "d", "e", "r", "a", "t", "o", "r">>>>],
     [text |-> <<"b", "a", "d", "g", "e", "s", "=", "m", "o", "d", "e", "r", "a", "t", "o", "r", "/", "1", ",", "s", "u", "b", "s", "c", "r", "i", "b", "e", "r", "/", "1", "2", ";", "c", "o", "l", "o", "r", "=", "#", "F", "F", "0", "0", "0", "0">>,
      badgesValue |-> <<"m", "o", "d", "e", "r", "a", "t", "o", "r", "/", "1", ",", "s", "u", "b", "s", "c", "r", "i", "b", "e", "r", "/", "1", "2">>,
      badges |-> <<<<"m", "o", "d", "e", "r", "a", "t", "o", "r">>, <<"s", "u", "b", "s", "c", "r", "i", "b", "e", "r">>>>],
     [text |-> <<"b", "a", "d", "g", "e", "s", "=", ";", "c", "o", "l", "o", "r", "=", "#", "F", "F", "0", "0", "0", "0">>,
      badgesValue |-> <<>>,
      badges |-> <<>>],
     [text |-> <<"c", "o", "l", "o", "r", "=", "#", "F", "F", "0", "0", "0", "0">>,
      badgesValue |-> <<>>,
      badges |-> <<>>],
     [text |-> <<"b", "a", "d", "g", "e", "s", "=", "s", "u", "b", "s", "c", "r", "i", "b", "e", "r", "/", "6", ";", "e", "m", "o", "t", "e", "s", "=", "2", "5", ":", "0", "-", "4">>,
      badgesValue |-> <<"s", "u", "b", "s", "c", "r", "i", "b", "e", "r", "/", "6">>,
      badges |-> <<<<"s", "u", "b", "s", "c", "r", "i", "b", "e", "r">>>>],
     [text |-> <<"b", "a", "d", "g", "e", "s", "=", "b", "o", "t", "/", "1", ";", "c", "o", "l", "o", "r", "=", "#", "F", "F", "0", "0", "0", "0">>,
      badgesValue |-> <<"b", "o", "t", "/", "1">>,
      badges |-> <<<<"b", "o", "t">>>>],
     [text |-> <<"b", "a", "d", "g", "e", "s", "=", "b", "o", "t", "-", "b", "a", "d", "g", "e", "/", "1", ";", "c", "o", "l", "o", "r", "=", "#", "F", "F", "0", "0", "0", "0">>,
      badgesValue |-> <<"b", "o", "t", "-", "b", "a", "d", "g", "e", "/", "1">>,
      badges |-> <<<<"b", "o", "t", "-", "b", "a", "d", "g", "e">>>>]}

\* User names, and whether botPatterns is meant to match them.
UserChoices ==
    {[name |-> <<"a", "l", "i", "c", "e">>, bot |-> FALSE],
     [name |-> <<"n", "i", "g", "h", "t", "b", "o", "t">>, bot |-> TRUE],
     [name |-> <<"S", "t", "r", "e", "a", "m", "E", "l", "e", "m", "e", "n", "t", "s">>, bot |-> TRUE],
     [name |-> <<"c", "o", "o", "l", "b", "o", "t">>, bot |-> TRUE]}

TextChoices ==
    {<<"H", "e", "l", "l", "o", " ", "t", "h", "e", "r", "e">>,
     <<"K", "a", "p", "p", "a">>,
     <<"h", "i", ":", " ", "y", "o", "u", " ", "@", "b", "o", "b", "!">>}

\* Lines that are not of the form
\* @<tags> :<user>!<user>@<user>.tmi.twitch.tv PRIVMSG #<channel> :<text>
OtherLines ==
    {<<>>,
     <<":", "t", "m", "i", ".", "t", "w", "i", "t", "c", "h", ".", "t", "v", " ", "0", "0", "1", " ", "j", "u", "s", "t", "i", "n", "f", "a", "n", "1", "2", "3", "4", "5", " ", ":", "W", "e", "l", "c", "o", "m", "e", ",", " ", "G", "L", "H", "F", "!">>,
     <<"@", "b", "a", "d", "g", "e", "s", "=", " ", ":", "a", "l", "i", "c", "e", "!", "a", "l", "i", "c", "e", "@", "a", "l", "i", "c", "e", ".", "t", "m", "i", ".", "t", "w", "i", "t", "c", "h", ".", "t", "v", " ", "J", "O", "I", "N", " ", "#", "c", "h", "a", "n">>,
     <<"@", "b", "a", "d", "g", "e", "s", "=", " ", ":", "a", "l", "i", "c", "e", "!", "a", "l", "i", "c", "e", "@", "a", "l", "i", "c", "e", ".", "t", "m", "i", ".", "t", "w", "i", "t", "c", "h", ".", "t", "v", " ", "P", "R", "I", "V", "M", "S", "G", " ", "#", "c", "h", "a", "n", " ", ":">>,
     <<":", "a", "l", "i", "c", "e", "!", "a", "l", "i", "c", "e", "@", "a", "l", "i", "c", "e", ".", "t", "m", "i", ".", "t", "w", "i", "t", "c", "h", ".", "t", "v", " ", "P", "R", "I", "V", "M", "S", "G", " ", "#", "c", "h", "a", "n", " ", ":", "H", "e", "l", "l", "o", " ", "t", "h", "e", "r", "e">>,
     <<"@", "b", "a", "d", "g", "e", "s", "=", " ", ":", "a", "l", "i", "c", "e", "!", "a", "l", "i", "c", "e", "@", "a", "l", "i", "c", "e", ".", "t", "m", "i", ".", "t", "w", "i", "t", "c", "h", ".", "t", "v", " ", "P", "R", "I", "V", "M", "S", "G", " ", "c", "h", "a", "n", " ", ":", "H", "e", "l", "l", "o", " ", "t", "h", "e", "r", "e">>}

CHAN ==
    <<"c", "h", "a", "n">>

NoTags == [text |-> <<>>, badgesValue |-> <<>>, badges |-> <<>>]

NoUser == [name |-> <<>>, bot |-> FALSE]

ParseInputs ==
    {[kind |-> "privmsg", tags |-> t, user |-> u, text |-> x, raw |-> <<>>] :
        t \in TagChoices, u \in UserChoices, x \in TextChoices}
    \cup {[kind |-> "other", tags |-> NoTags, user |-> NoUser, text |-> <<>>, raw |-> l] :
        l \in OtherLines}

\* The inbound line of an input.
LineOf(a) ==
    IF a.kind = "privmsg"
    THEN <<"@">> \o a.tags.text \o <<" ", ":">> \o a.user.name \o <<"!">>
         \o a.user.name \o <<"@">> \o a.user.name \o TMI_PRIVMSG \o CHAN
         \o <<" ", ":">> \o a.text
    ELSE a.raw

\* The services are idle while a function is under test.
ServicesIdle ==
    /\ ChatInit
    /\ QueueInit
    /\ WireIdle
    /\ enabled = TRUE
    /\ eager = TRUE

InitParse ==
    /\ ServicesIdle
    /\ arg \in ParseInputs
    /\ applied = FALSE
    /\ result = NoMatch

Parse ==
    /\ ~applied
    /\ result' = parseIRCMessage(LineOf(arg))
    /\ applied' = TRUE
    /\ UNCHANGED <<arg, queueVars, chatVars, wireVars>>

NextParse == Parse

SpecParse == InitParse /\ [][NextParse]_vars

\* ======================================================================
\* shouldProcessMessage (contexts/TTSContext.tsx)
\* ======================================================================
UpperCase ==
    {"A", "B", "C", "D", "E", "F", "G", "H", "I", "J", "K", "L", "M",
     "N", "O", "P", "Q", "R", "S", "T", "U", "V", "W", "X", "Y", "Z"}

emoteOnlyMaxLength == 20

\* /^[A-Z\s]+$/.test(s)
upperOrSpaceOnly(s) ==
    s # <<>> /\ \A k \in DOMAIN s : s[k] \in UpperCase \cup WhiteSpace

\* array.includes(x)
arrayIncludes(a, x) == \E k \in DOMAIN a : a[k] = x

\* (bug) the user name is compared as written
shouldProcessMessage_caseSensitive(settings, message) ==
    IF ~settings.enabled THEN FALSE
    ELSE IF settings.filterBots /\ message.isBot THEN FALSE
    ELSE IF Len(message.message) < settings.minMessageLength THEN FALSE
    ELSE IF arrayIncludes(settings.blockedUsers, message.username) THEN FALSE
    ELSE IF settings.skipEmoteOnly
            /\ upperOrSpaceOnly(message.message)
            /\ Len(message.message) < emoteOnlyMaxLength
    THEN FALSE
    ELSE TRUE

shouldProcessMessage(settings, message) ==
    IF ~settings.enabled THEN FALSE
    ELSE IF settings.filterBots /\ message.isBot THEN FALSE
    ELSE IF Len(message.message) < settings.minMessageLength THEN FALSE
    ELSE IF arrayIncludes(settings.blockedUsers, toLowerCase(message.username)) THEN FALSE
    ELSE IF settings.skipEmoteOnly
            /\ upperOrSpaceOnly(message.message)
            /\ Len(message.message) < emoteOnlyMaxLength
    THEN FALSE
    ELSE TRUE

ALICE ==
    <<"a", "l", "i", "c", "e">>

BOB ==
    <<"b", "o", "b">>

HI ==
    <<"h", "i">>

HELLO ==
    <<"h", "e", "l", "l", "o">>

HI_THERE ==
    <<"h", "i", " ", "t", "h", "e", "r", "e">>

FilterUsers ==
    {<<"a", "l", "i", "c", "e">>, <<"b", "o", "b">>, <<"B", "o", "b">>}

FilterTexts ==
    {<<"h", "i">>,
     <<"h", "e", "l", "l", "o">>,
     <<"h", "i", " ", "t", "h", "e", "r", "e">>,
     <<"L", "U", "L">>,
     <<"K", "A", "P", "P", "A", " ", "K", "A", "P", "P", "A">>,
     <<"H", "i">>,
     <<>>,
     <<"A", "A", "A", "A", "A", "A", "A", "A", "A", "A", " ", "A", "A", "A", "A", "A", "A", "A", "A", "A", "A">>,
     <<"o", "k">>}

FilterMessages ==
    {[username |-> u, message |-> t, isBot |-> b] :
        u \in FilterUsers, t \in FilterTexts, b \in BOOLEAN}

FilterSettings ==
    {[enabled |-> e, filterBots |-> f, minMessageLength |-> n,
      blockedUsers |-> bl, skipEmoteOnly |-> s] :
        e \in BOOLEAN, f \in BOOLEAN, n \in {0, 3, 6},
        bl \in {<<>>, <<BOB>>, <<ALICE, <<"B", "o", "b">>>>}, s \in BOOLEAN}

InitFilter ==
    /\ ServicesIdle
    /\ arg \in {[settings |-> s, message |-> m] : s \in FilterSettings, m \in FilterMessages}
    /\ applied = FALSE
    /\ result = FALSE

Filter ==
    /\ ~applied
    /\ result' = shouldProcessMessage(arg.settings, arg.message)
    /\ applied' = TRUE
    /\ UNCHANGED <<arg, queueVars, chatVars, wireVars>>

NextFilter == Filter

SpecFilter == InitFilter /\ [][NextFilter]_vars

\* ======================================================================
\* TTSService: volume, rate and pitch (services/TTSService.ts)
\* ======================================================================
\* Numbers are kept in hundredths: 0.05 is 5, 1 is 100, 0.1 is 10.
Hundredths == 100

Max(a, b) == IF a > b THEN a ELSE b

\* Values a caller may pass: -0.5, 0.05, 0.7, 1.5 and 15.
NumChoices == {-50, 5, 70, 150, 1500}

\* Math.max(0, Math.min(1, v))
clampVolume(v) == Max(0, Min(1 * Hundredths, v))

\* Math.max(0.1, Math.min(10, v))
clampRate(v) == Max(Hundredths \div 10, Min(10 * Hundredths, v))

\* Math.max(0, Math.min(2, v))
clampPitch(v) == Max(0, Min(2 * Hundredths, v))

setVolume(s, v) == [s EXCEPT !.volume = clampVolume(v)]

setRate(s, v) == [s EXCEPT !.rate = clampRate(v)]

setPitch(s, v) == [s EXCEPT !.pitch = clampPitch(v)]

\* updateSettings({volume, rate, pitch}): the values are stored as given.
updateNumbers(s, new) == new

\* The volume, rate and pitch that configureUtterance gives an utterance.
\* (bug) the settings are handed to the utterance as stored
configureUtterance_unclamped(s) ==
    [volume |-> s.volume, rate |-> s.rate, pitch |-> s.pitch]

configureUtterance(s) ==
    [volume |-> clampVolume(s.volume),
     rate |-> clampRate(s.rate),
     pitch |-> clampPitch(s.pitch)]

NumSettings == [volume : NumChoices, rate : NumChoices, pitch : NumChoices]

\* new TTSService(settings): the settings are stored as given; no utterance
\* has been configured.
InitNumbers ==
    /\ ServicesIdle
    /\ arg \in NumSettings
    /\ applied = FALSE
    /\ result = [volume |-> 0, rate |-> Hundredths, pitch |-> Hundredths]

SetVolume ==
    /\ \E v \in NumChoices : arg' = setVolume(arg, v)
    /\ UNCHANGED <<applied, result, queueVars, chatVars, wireVars>>

SetRate ==
    /\ \E v \in NumChoices : arg' = setRate(arg, v)
    /\ UNCHANGED <<applied, result, queueVars, chatVars, wireVars>>

SetPitch ==
    /\ \E v \in NumChoices : arg' = setPitch(arg, v)
    /\ UNCHANGED <<applied, result, queueVars, chatVars, wireVars>>

UpdateNumbers ==
    /\ \E new \in NumSettings : arg' = updateNumbers(arg, new)
    /\ UNCHANGED <<applied, result, queueVars, chatVars, wireVars>>

\* speak() configures an utterance.
Configure ==
    /\ result' = configureUtterance(arg)
    /\ applied' = TRUE
    /\ UNCHANGED <<arg, queueVars, chatVars, wireVars>>

NextNumbers ==
    \/ SetVolume
    \/ SetRate
    \/ SetPitch
    \/ UpdateNumbers
    \/ Configure

SpecNumbers == InitNumbers /\ [][NextNumbers]_vars

\* ======================================================================
\* ChatProvider, TTSProvider and ChatTTSIntegration: from a chat:message
\* event to QueueManager.add
\* ======================================================================
MaxMsgs == 2       \* chat:message events explored
MaxPending == 3    \* dispatched actions explored between two renders

maxMessages == 100

\* An inbound line whose message is shorter than minMessageLength.
ShortLine ==
    <<"@", "b", "a", "d", "g", "e", "s", "=", "m", "o", "d", "e", "r",
      "a", "t", "o", "r", "/", "1", " ", ":", "a", "l", "i", "c", "e",
      "!", "a", "l", "i", "c", "e", "@", "a", "l", "i", "c", "e", ".",
      "t", "m", "i", ".", "t", "w", "i", "t", "c", "h", ".", "t", "v",
      " ", "P", "R", "I", "V", "M", "S", "G", " ", "#", "c", "h", "a",
      "n", " ", ":", "h", "i">>

WireBlocks ==
    {Block(<<HelloLine>>), Block(<<ShortLine>>),
     Block(<<HelloLine, HelloLine>>), Block(<<ShortLine, HelloLine>>),
     Block(<<HelloLine, ShortLine>>)}

\* The state the listeners, the reducer and the effect read and write, as
\* one record; q is the QueueManager with its engine.
W == [messages |-> messages, isConnected |-> isConnected,
      ttsSettings |-> ttsSettings, pending |-> pending,
      limitTimers |-> limitTimers, emitted |-> emitted, added |-> added,
      batching |-> batching, q |-> St, nextId |-> nextId]

Action(t, p) == [type |-> t, payload |-> p]

\* messages.slice(-n) for n > 0
sliceLast(seq, n) ==
    IF Len(seq) <= n THEN seq ELSE SubSeq(seq, Len(seq) - n + 1, Len(seq))

\* The fields of ChatState that ChatTTSIntegration reads.
chatReducer(state, action) ==
    CASE action.type = "ADD_MESSAGE" ->
            [state EXCEPT !.messages = Append(@, action.payload)]
      [] action.type = "SET_CONNECTION_STATUS" ->
            [state EXCEPT !.isConnected = (action.payload = "connected")]
      [] action.type = "LIMIT_MESSAGES" ->
            [state EXCEPT !.messages = sliceLast(@, action.payload)]
      [] OTHER -> state

\* addToQueue of TTSContext: the message is filtered under the settings of
\* the render, then handed to QueueManager.add (the texts of the messages
\* explored all hold word characters).
addToQueue(w, message) ==
    IF ~shouldProcessMessage(w.ttsSettings, message) THEN w
    ELSE [w EXCEPT !.q = add(@, w.nextId + 1, "hello"),
                   !.nextId = @ + 1,
                   !.added = Append(@, message.id)]

\* The effect of ChatTTSIntegration.
integrationEffect(w) ==
    IF w.messages # <<>> /\ w.isConnected
    THEN addToQueue(w, w.messages[Len(w.messages)])
    ELSE w

RECURSIVE reduceAll(_, _)
reduceAll(state, actions) ==
    IF actions = <<>> THEN state
    ELSE reduceAll(chatReducer(state, Head(actions)), Tail(actions))

\* One render of the providers: the dispatched actions are reduced in order
\* and the effect runs if one of its dependencies changed. ADD_MESSAGE and
\* LIMIT_MESSAGES always build a new array; isConnected is compared by value.
render(w) ==
    LET state == reduceAll([messages |-> w.messages, isConnected |-> w.isConnected],
                           w.pending)
        newArray == \E i \in DOMAIN w.pending :
                        w.pending[i].type \in {"ADD_MESSAGE", "LIMIT_MESSAGES"}
        w1 == [w EXCEPT !.messages = state.messages,
                        !.isConnected = state.isConnected,
                        !.pending = <<>>]
    IN  IF newArray \/ state.isConnected # w.isConnected
        THEN integrationEffect(w1)
        ELSE w1

\* dispatch of useReducer: with batching the action waits for the render that
\* follows the task; without it the render is synchronous.
dispatch(w, action) ==
    LET w1 == [w EXCEPT !.pending = Append(@, action)]
    IN  IF w.batching THEN w1 ELSE render(w1)

\* The listeners that ChatProvider registered, run on the events that one
\* handler of the connection client emitted, in order. The id stands for the
\* identity of the message.
RECURSIVE listeners(_, _)
listeners(w, events) ==
    IF events = <<>> THEN w ELSE
    LET e == Head(events)
        w1 == CASE e.name = "chat:message" ->
                    [dispatch(w, Action("ADD_MESSAGE",
                                  [id |-> w.emitted + 1,
                                   username |-> e.text.username,
                                   message |-> e.text.message,
                                   isBot |-> e.text.isBot]))
                        EXCEPT !.emitted = @ + 1, !.limitTimers = @ + 1]
                [] e.name = "chat:connected" ->
                    dispatch(w, Action("SET_CONNECTION_STATUS", "connected"))
                [] e.name = "chat:disconnected" ->
                    dispatch(w, Action("SET_CONNECTION_STATUS", "disconnected"))
                [] e.name = "chat:error" ->
                    dispatch(w, Action("SET_CONNECTION_STATUS", "error"))
                [] OTHER -> w
    IN  listeners(w1, Tail(events))

setWire(w) ==
    /\ messages' = w.messages
    /\ isConnected' = w.isConnected
    /\ ttsSettings' = w.ttsSettings
    /\ pending' = w.pending
    /\ limitTimers' = w.limitTimers
    /\ emitted' = w.emitted
    /\ added' = w.added
    /\ batching' = w.batching
    /\ setQueue(w.q)
    /\ nextId' = w.nextId
    /\ UNCHANGED funVars
    \* the exploration bounds
    /\ w.emitted <= MaxMsgs
    /\ Len(w.pending) <= MaxPending
    /\ w.nextId + tests <= MaxItems

\* A handler of the connection client has run; the listeners see its events.
CommitWire(c, w) ==
    /\ setChat(c)
    /\ setWire(listeners(w, c.trace))

\* The connect action of ChatProvider.
providerConnect(c, w) ==
    [c |-> connect(c),
     w |-> dispatch(w, Action("SET_CONNECTION_STATUS", "connecting"))]

\* The application connects at start-up and the connection toggle calls
\* connect only while the rendered state is not connected.
WireConnect ==
    /\ ~isConnected
    /\ \E r \in {providerConnect(Ch, W)} : CommitWire(r.c, r.w)

WireWsOpen ==
    /\ ws = "connecting"
    /\ \E c \in {wsOpens(Ch)} : CommitWire(c, W)

WireWsClose ==
    /\ ws \in {"open", "errored"}
    /\ \E c \in {wsCloses(Ch)} : CommitWire(c, W)

WireReconnectTimer ==
    \E k \in DOMAIN rtimers : \E c \in {reconnectTimerFires(Ch, k)} : CommitWire(c, W)

WireWsMessage ==
    /\ ws = "open"
    /\ \E data \in WireBlocks : \E c \in {wsMessage(Ch, data)} : CommitWire(c, W)

\* The render that follows a task in which actions were dispatched.
Render ==
    /\ batching
    /\ pending # <<>>
    /\ \E w \in {render(W)} : setWire(w)
    /\ UNCHANGED chatVars

\* The callback of setTimeout(..., 0) in the chat:message listener.
limitTimerFires(w) ==
    dispatch([w EXCEPT !.limitTimers = @ - 1], Action("LIMIT_MESSAGES", maxMessages))

LimitTimer ==
    /\ limitTimers > 0
    /\ \E w \in {limitTimerFires(W)} : setWire(w)
    /\ UNCHANGED chatVars

\* TTS has been switched on or left off before the chat is connected; the
\* tree is rendered by a root that batches updates or by one that does not.
InitWire ==
    /\ ChatInit
    /\ QueueInit
    /\ eager = TRUE
    /\ FunIdle
    /\ WireInit
    /\ ttsSettings \in {defaultSettings, [defaultSettings EXCEPT !.enabled = TRUE]}
    /\ enabled = ttsSettings.enabled
    /\ batching \in BOOLEAN

NextWire ==
    \/ WireConnect
    \/ WireWsOpen
    \/ WireWsClose
    \/ WireReconnectTimer
    \/ WireWsMessage
    \/ Render
    \/ LimitTimer

SpecWire == InitWire /\ [][NextWire]_vars

\* ======================================================================
\* Properties
\* ======================================================================
Positions(tr, n) == {k \in DOMAIN tr : tr[k].name = n}

Count(tr, n) == Cardinality(Positions(tr, n))

Increasing(q) == \A a, b \in DOMAIN q : a < b => q[a] < q[b]

\* What an observer should see: the active item, then the backlog.
Visible(s) == IF s.currentItem # Null THEN <<s.currentItem>> \o ids(s.queue)
                                      ELSE ids(s.queue)

\* The engine holds an utterance of item i that has not ended, errored or
\* been cancelled.
Narrating(i) == \E k \in DOMAIN engineQ : engineQ[k].item = i

\* C1: at every instant at most one utterance has been handed to the
\* narration engine and has not yet ended, errored or been stopped.
C1_AtMostOneInFlight == Len(engineQ) <= 1

\* C2: with no remove/skip/clear/pause, the items are handed to
\* TTSService.speak in the order they were added: the k-th call is for the
\* k-th item added, so the first call is for m1 and none is handed over
\* before an earlier one.
C2_FifoOrder == \A k \in DOMAIN speakLog : speakLog[k] = k

\* Every item that can be added has been handed over, and each has ended
\* or errored.
C2_Witness ==
    /\ Len(speakLog) = MaxItems
    /\ \A i \in ItemIds : status[i] = "completed"

\* C3: between event-loop tasks, currentItem is non-null if and only if the
\* narration engine is narrating that item.
C3_ActiveIffNarrating ==
    micro = <<>> =>
        /\ currentItem # Null => Narrating(currentItem)
        /\ \A i \in ItemIds : Narrating(i) => currentItem = i

\* C4: the backlog never contains currentItem; every queue:updated event
\* carries currentItem (if non-null) followed by the backlog, in arrival
\* order and with no item twice.  The list of the latest event is compared
\* with the state: it is the active item followed by the backlog, or, once
\* the active item has been dropped without a new event, that dropped item
\* followed by the backlog.
C4_QueueView ==
    /\ currentItem \notin Range(ids(queue))
    /\ Increasing(Visible(St))
    /\ Increasing(lastUpdate)
    /\ \/ lastUpdate = Visible(St)
       \/ /\ currentItem = Null
          /\ lastUpdate # <<>>
          /\ Tail(lastUpdate) = ids(queue)

\* An item is active, two more wait behind it, and the event listed the three.
C4_Witness == currentItem # Null /\ Len(queue) >= 2 /\ Len(lastUpdate) = 3

\* The handlers that run without a caller's command: timers, the rejection
\* microtask and the engine's callbacks, each from a state with an empty trace.
Quiet(s) == [s EXCEPT !.trace = <<>>]

CallbackResults(s) ==
    IF s.micro # <<>> THEN {Quiet(rejectionRuns(s))}
    ELSE (IF s.timers > 0 THEN {Quiet(timerFires(s))} ELSE {})
         \cup (IF s.engineQ # <<>>
                THEN {Quiet(engineEnds(s)), Quiet(engineFails(s))} ELSE {})
         \cup {Quiet(staleEnds(s, u)) : u \in s.stale}
         \cup {Quiet(staleFails(s, u)) : u \in s.stale}

\* Every state that callbacks alone can lead to from the states of S.
RECURSIVE CallbackClosure(_)
CallbackClosure(S) ==
    LET N == S \cup UNION {CallbackResults(s) : s \in S}
    IN  IF N = S THEN S ELSE CallbackClosure(N)

\* C5: skip() called while an item is narrating and the backlog is
\* non-empty requests engine stop and returns true, and the head of the
\* backlog becomes the active item and is handed to the engine with no
\* further command: at the return of skip() or after some callbacks.
C5_SkipAdvances ==
    (micro = <<>> /\ currentItem # Null /\ speaking /\ Narrating(currentItem)
       /\ queue # <<>>) =>
        LET r == skip(St)
        IN  /\ r.ret
            /\ Count(r.s.trace, "stop") = 1
            /\ \E s \in CallbackClosure({Quiet(r.s)}) :
                  /\ s.currentItem = Head(queue).id
                  /\ \E k \in DOMAIN s.engineQ : s.engineQ[k].item = Head(queue).id

\* C6: an engine error for the active item discards exactly that item; no
\* other item is marked completed because of it.  Stated for the rejection
\* of speak(): when it reaches processNext, an item other than the rejected
\* one is completed only if its own end or error is reported in that step.
C6_ErrorDiscardsOnlyItsItem ==
    micro # <<>> =>
        LET r == rejectionRuns(St)
        IN  \A i \in ItemIds \ {Head(micro)} :
              (status[i] # "completed" /\ r.status[i] = "completed") =>
                 \E k \in DOMAIN r.trace :
                    /\ r.trace[k].name \in {"tts:ended", "tts:error"}
                    /\ r.trace[k].item = i

\* C7: a completion, error or rejection that belongs to an item which is not
\* the active item changes neither currentItem nor any status, and does not
\* advance the queue.
Untouched(r) ==
    /\ r.currentItem = currentItem
    /\ r.status = status
    /\ r.queue = queue
    /\ r.isProcessing = isProcessing

C7_StaleCompletionIgnored ==
    /\ (micro # <<>> /\ Head(micro) # currentItem) => Untouched(rejectionRuns(St))
    /\ (micro = <<>> /\ engineQ # <<>> /\ Head(engineQ).item # currentItem) =>
          Untouched(engineFails(St))
    /\ (micro = <<>> /\ speaking /\ engineQ # <<>> /\ Head(engineQ).item # currentItem) =>
          Untouched(engineEnds(St))
    /\ micro = <<>> =>
          \A u \in stale : u.item # currentItem =>
              Untouched(staleEnds(St, u)) /\ Untouched(staleFails(St, u))

\* C8: remove(id) of the active item returns true, leaves currentItem null,
\* calls the engine's stop() exactly once, and does so before the next
\* pending item becomes active.
C8_RemoveActiveStopsOnce ==
    (micro = <<>> /\ currentItem # Null) =>
        LET r == remove(St, currentItem)
        IN  /\ r.ret
            /\ r.s.currentItem = Null
            /\ Count(r.s.trace, "stop") = 1
            /\ Count(r.s.trace, "speak") = 0

\* C9: after skip() returns true the item that was active is completed and
\* in neither the backlog nor the active slot, and a completed item never
\* changes status or enters either of them again.
C9_SkippedIsGone ==
    [][ /\ (micro = <<>> /\ skip(St).ret) =>
              LET r == skip(St).s
              IN  /\ r.status[currentItem] = "completed"
                  /\ currentItem \notin Range(ids(r.queue))
                  /\ r.currentItem # currentItem
        /\ \A i \in ItemIds : status[i] = "completed" =>
              /\ status'[i] = "completed"
              /\ i \notin Range(ids(queue'))
              /\ currentItem' # i ]_vars

\* skip() has returned true: the item it stopped is completed, its utterance
\* was cancelled, no item is active and others wait in the backlog.
C9_Witness ==
    /\ micro = <<>>
    /\ isProcessing /\ currentItem = Null /\ queue # <<>>
    /\ \E i \in ItemIds : status[i] = "completed" /\ Utt(i, 0) \in stale

\* C10: remove(id) of a pending item removes exactly that item, keeps the
\* order of the others, leaves currentItem and isProcessing unchanged, does
\* not call the engine's stop(), emits one queue:updated and returns true.
C10_RemovePending ==
    micro = <<>> =>
        \A k \in DOMAIN queue :
            LET r == remove(St, queue[k].id)
                others == [j \in 1..(Len(queue) - 1) |->
                              IF j < k THEN queue[j] ELSE queue[j + 1]]
            IN  /\ r.ret
                /\ r.s.queue = others
                /\ r.s.currentItem = currentItem
                /\ r.s.isProcessing = isProcessing
                /\ r.s.status = status
                /\ r.s.timers = timers
                /\ r.s.engineQ = engineQ /\ r.s.speaking = speaking
                /\ r.s.currentUtterance = currentUtterance
                /\ Count(r.s.trace, "stop") = 0
                /\ Count(r.s.trace, "queue:updated") = 1
                /\ Len(r.s.trace) = 1
                /\ r.s.trace[1].list = Visible(r.s)

\* An item is active and two are pending: the first of the two can be removed.
C10_Witness ==
    /\ micro = <<>>
    /\ currentItem # Null
    /\ Len(queue) >= 2
    /\ remove(St, queue[1].id).ret

\* The queue:cleared and queue:updated events of a handler's record, in order.
QueueEvents(tr) ==
    SelectSeq(tr, LAMBDA e : e.name \in {"queue:cleared", "queue:updated"})

\* The engine is narrating an item of the queue.
NarratingAnItem ==
    speaking /\ engineQ # <<>> /\ Head(engineQ).item \in ItemIds

\* C11: clear(), called in any state, requests engine stop if an item is
\* being narrated, leaves the backlog empty, currentItem null and
\* isProcessing false, emits exactly one queue:cleared followed by exactly
\* one queue:updated carrying the empty list, and no item that was pending
\* before it is handed to the engine afterwards, whatever callbacks follow.
C11_ClearEmptiesAndStops ==
    micro = <<>> =>
        LET r == clear(St)
        IN  /\ NarratingAnItem => Count(r.trace, "stop") = 1
            /\ r.queue = <<>>
            /\ r.currentItem = Null
            /\ r.isProcessing = FALSE
            /\ QueueEvents(r.trace) = <<Ev("queue:cleared", Null, <<>>),
                                        Ev("queue:updated", Null, <<>>)>>
            /\ \A s \in CallbackClosure({Quiet(r)}) :
                  \A i \in Range(ids(queue)) :
                      /\ i \notin Range(s.speakLog)
                      /\ \A k \in DOMAIN s.engineQ : s.engineQ[k].item # i

\* C12: clear() is idempotent: a second clear() right after the first
\* leaves every field as the first one left it.
C12_ClearIdempotent ==
    micro = <<>> =>
        LET once  == Quiet(clear(St))
            twice == Quiet(clear(once))
        IN  /\ twice = once
            /\ once.queue = <<>> /\ once.currentItem = Null /\ ~once.isProcessing

\* clear() is called with an item active and narrating and two more pending.
C12_Witness ==
    /\ micro = <<>>
    /\ currentItem # Null /\ speaking /\ Len(queue) >= 2
    /\ Quiet(clear(St)).stale # stale

\* C13: pause() requests engine stop when an item is being narrated, keeps
\* the backlog and sets isProcessing false; a following resume() with a
\* non-empty backlog makes its head the active item and hands it to the
\* engine (narration enabled, text speakable); resume() with an empty
\* backlog and no active item does nothing.
C13_PauseResume ==
    micro = <<>> =>
        LET p == pause(St)
            r == resume(Quiet(p))
        IN  /\ NarratingAnItem => Count(p.trace, "stop") = 1
            /\ p.queue = queue
            /\ p.isProcessing = FALSE
            /\ (queue # <<>> /\ enabled /\ preprocessMessage(Head(queue).text) # "") =>
                  /\ r.currentItem = Head(queue).id
                  /\ \E k \in DOMAIN r.engineQ : r.engineQ[k].item = Head(queue).id
            /\ (queue = <<>> /\ currentItem = Null) =>
                  /\ r = Quiet(p)
                  /\ Quiet(resume(St)) = Quiet(St)

\* --------------------------------------------------------------- chat
CQuiet(c) == [c EXCEPT !.trace = <<>>]

\* The close and error handlers that can run in state c, each from an empty
\* record of calls and events.
TransportFailures(c) ==
    (IF c.ws \in {"connecting", "open"} THEN {wsErrors(c)} ELSE {})
    \cup (IF c.ws \in {"open", "errored"} THEN {wsCloses(c)} ELSE {})
    \cup {oldWsErrors(c, st) : st \in {t \in {"connecting", "open", "failing"} : c.old[t] > 0}}
    \cup {oldWsCloses(c, st) : st \in {t \in {"open", "errored", "closing"} : c.old[t] > 0}}

\* Every handler that runs without a caller's command.
ChatCallbackResults(c) ==
    TransportFailures(c)
    \cup (IF c.ws = "connecting" THEN {wsOpens(c)} ELSE {})
    \cup (IF c.old["connecting"] > 0 THEN {oldWsOpens(c)} ELSE {})
    \cup {reconnectTimerFires(c, k) : k \in DOMAIN c.rtimers}

\* Every state that callbacks alone can lead to from the states of S.
RECURSIVE ChatCallbackClosure(_)
ChatCallbackClosure(S) ==
    LET N == S \cup UNION {{CQuiet(r) : r \in ChatCallbackResults(c)} : c \in S}
    IN  IF N = S THEN S ELSE ChatCallbackClosure(N)

\* C14: whenever the status is disconnected or error (disconnect() is
\* synchronous, so none is in progress between handlers), connect() opens
\* exactly one new transport and the status becomes connecting, then
\* connected when that transport opens.
C14_ConnectOpensTransport ==
    connectionStatus \in {"disconnected", "error"} =>
        LET r == connect(Ch)
        IN  /\ Count(r.trace, "new WebSocket") = 1
            /\ r.connectionStatus = "connecting"
            /\ r.ws = "connecting"
            /\ wsOpens(CQuiet(r)).connectionStatus = "connected"

\* C15: connect() while the status is connecting or connected is a no-op:
\* no transport, no frame, no event, and status, reconnectAttempts, the
\* transport and the pending reconnect timer are unchanged.
C15_ConnectNoOp ==
    connectionStatus \in {"connecting", "connected"} => connect(Ch) = Ch

\* connect() is called while connecting, after failed attempts, with a
\* reconnect timer pending.
C15_Witness ==
    /\ connectionStatus = "connecting"
    /\ reconnectAttempts > 0
    /\ rtimers # <<>>

\* C16: after disconnect() returns the status is disconnected and no
\* reconnect timer is pending; whatever close, error, open or timer
\* callbacks follow, no reconnect timer is armed and no transport is opened.
C16_DisconnectIsFinal ==
    LET r == CQuiet(disconnect(Ch))
    IN  /\ r.connectionStatus = "disconnected"
        /\ r.rtimers = <<>>
        /\ r.ws = "none"
        /\ \A c \in ChatCallbackClosure({r}) :
              /\ c.rtimers = <<>>
              /\ c.ws = "none"
              /\ OldCount(c) <= OldCount(r)

\* disconnect() is called with a transport that failed but has not closed
\* yet and a reconnect timer pending.
C16_Witness ==
    /\ ws = "errored"
    /\ rtimers # <<>>
    /\ ~isIntentionalDisconnect

\* C17: at most one reconnect timer is pending in every reachable state.
C17_OneReconnectTimer == Len(rtimers) <= 1

\* A timer is pending and the close event of the failed transport, which
\* schedules again, is still to come.
C17_Witness ==
    /\ Len(rtimers) = 1
    /\ ws = "errored"
    /\ ~isIntentionalDisconnect

\* C18: reconnectAttempts never exceeds the ceiling; a pending timer means
\* the count is below it, so the timers fired since the last open are at
\* most 10; at the ceiling an unintentional close or error arms no timer and
\* emits chat:error 'Max reconnection attempts reached'.
C18_GivesUpAtCeiling ==
    /\ reconnectAttempts <= maxReconnectAttempts
    /\ rtimers # <<>> => reconnectAttempts < maxReconnectAttempts
    /\ \A k \in DOMAIN rtimers :
          reconnectTimerFires(Ch, k).reconnectAttempts = reconnectAttempts + 1
    /\ (reconnectAttempts = maxReconnectAttempts /\ ~isIntentionalDisconnect) =>
          \A r \in TransportFailures(Ch) :
              /\ r.rtimers = <<>>
              /\ Count(r.trace, "setTimeout") = 0
              /\ \E k \in DOMAIN r.trace :
                    r.trace[k] = CEv("chat:error", "Max reconnection attempts reached", 0)

\* The ceiling is reached and the last attempt's transport is about to fail.
C18_Witness ==
    /\ reconnectAttempts = maxReconnectAttempts
    /\ ws = "connecting"
    /\ ~isIntentionalDisconnect

\* The delays the claim lists, by the number of failed attempts so far.
ListedDelay(n) ==
    IF n < 5 THEN <<1000, 2000, 4000, 8000, 16000>>[n + 1] ELSE 30000

\* C19: a reconnect timer armed after n failed attempts has delay 1000,
\* 2000, 4000, 8000, 16000 for n = 0..4 and 30000 for every later one; no
\* delay exceeds 30000.
C19_BackoffDelays ==
    /\ \A r \in ChatCallbackResults(Ch) :
          \A k \in Positions(r.trace, "setTimeout") :
              /\ r.trace[k].num = ListedDelay(r.reconnectAttempts)
              /\ r.trace[k].num <= 30000
    /\ \A k \in DOMAIN rtimers : rtimers[k].delay <= 30000

\* The sixth and later timers are pending with the capped delay.
C19_Witness ==
    /\ reconnectAttempts >= 6
    /\ rtimers # <<>>
    /\ rtimers[1].delay = 30000

\* C20: reconnectAttempts becomes 0 on every transition of the status to
\* connected, and a step that resets it to 0 is a transition of the status
\* to connected (from another status).
C20_ResetOnConnected ==
    [][ /\ (connectionStatus' = "connected" /\ connectionStatus # "connected")
              => reconnectAttempts' = 0
        /\ (reconnectAttempts' = 0 /\ reconnectAttempts # 0)
              => (connectionStatus' = "connected" /\ connectionStatus # "connected") ]_vars

Frames(tr) ==
    LET sent == SelectSeq(tr, LAMBDA e : e.name = "send")
    IN  [k \in DOMAIN sent |-> sent[k].text]

Handshake == <<CAP_REQ \o CRLF, PASS_ \o CRLF, NICK_ \o CRLF, JOIN_ \o CRLF>>

\* The onopen handlers that can run in state c.
OpenResults(c) ==
    (IF c.ws = "connecting" THEN {wsOpens(c)} ELSE {})
    \cup (IF c.old["connecting"] > 0 THEN {oldWsOpens(c)} ELSE {})

\* C22: whenever a transport opens and the status becomes connected, the
\* handler has sent the four handshake frames CAP REQ, PASS, NICK, JOIN in
\* this order (sendRawMessage writes to this.ws only, so frames that were
\* not sent at all reached no transport).
C22_HandshakeBeforeConnected ==
    \A r \in OpenResults(CQuiet(Ch)) :
        r.connectionStatus = "connected" => Frames(r.trace) = Handshake

\* What handleMessage should do for the lines of a block: a PONG with the
\* line's token for a line that begins with PING, a chat:message for a line
\* that parses, in the order of the lines.
RECURSIVE ExpectedOfLines(_)
ExpectedOfLines(lines) ==
    IF lines = <<>> THEN <<>> ELSE
    LET line == Head(lines)
        here == IF startsWith(line, PING)
                THEN <<CEv("send", PONG_ \o substring(line, 5) \o CRLF, 0)>>
                ELSE IF parseIRCMessage(line).ok
                THEN <<CEv("chat:message", parseIRCMessage(line), 0)>>
                ELSE <<>>
    IN  here \o ExpectedOfLines(Tail(lines))

\* The onmessage handlers that can run on an open transport in state c.
MessageResults(c, data) ==
    (IF c.ws = "open" THEN {wsMessage(c, data)} ELSE {})
    \cup (IF c.old["open"] > 0 THEN {oldWsMessage(c, data)} ELSE {})

\* C23: for every data block that an open transport delivers, each line
\* that begins with PING is answered by exactly one PONG frame with the
\* line's token, sent before any later line is processed, and gives no
\* chat:message.
C23_PingAnswered ==
    \A data \in DataBlocks :
        \A r \in MessageResults(CQuiet(Ch), data) :
            r.trace = ExpectedOfLines(split(trim(data), CRLF))

\* C27: a line of the form @<tags> :<user>!<user>@<user>.tmi.twitch.tv
\* PRIVMSG #<channel> :<text> parses to a message with username <user>, text
\* <text> and the names of the badges tag, in order, as badges; any other
\* line gives no message.
C27_ParseLine ==
    applied =>
        IF arg.kind = "privmsg"
        THEN /\ result.ok
             /\ result.username = arg.user.name
             /\ result.message = arg.text
             /\ result.badges = arg.tags.badges
        ELSE result = NoMatch

\* C28: a parsed message is a bot exactly when its username matches a
\* known-bot pattern or its badge list contains a badge named bot.
C28_BotExactly ==
    (applied /\ result.ok /\ result.username = arg.user.name) =>
        (result.isBot <=> (arg.user.bot \/ BOT \in Range(result.badges)))

\* C28, amended: a parsed message is a bot exactly when its username
\* matches a known-bot pattern or the value of the badges tag contains the
\* characters bot.
C28_BotBySubstring ==
    (applied /\ result.ok /\ result.username = arg.user.name) =>
        (result.isBot <=> (arg.user.bot \/ includes(arg.tags.badgesValue, BOT)))

\* A line from nightbot with an empty badge list has been parsed.
C28_Witness ==
    /\ applied
    /\ result.ok
    /\ result.username = <<"n", "i", "g", "h", "t", "b", "o", "t">>
    /\ result.badges = <<>>
    /\ result.isBot

\* The conditions of the filter that reject message m under settings s.
Rejections(s, m) ==
    (IF ~s.enabled THEN {"enabled"} ELSE {})
    \cup (IF s.filterBots /\ m.isBot THEN {"bot"} ELSE {})
    \cup (IF ~(Len(m.message) >= s.minMessageLength) THEN {"length"} ELSE {})
    \cup (IF toLowerCase(m.username) \in Range(s.blockedUsers) THEN {"blocked"} ELSE {})
    \cup (IF s.skipEmoteOnly
             /\ m.message # <<>>
             /\ Range(m.message) \subseteq UpperCase \cup WhiteSpace
             /\ Len(m.message) < 20
          THEN {"emote"} ELSE {})

\* The settings of the filter scenario.
ScenarioSettings ==
    [enabled |-> TRUE, filterBots |-> TRUE, minMessageLength |-> 3,
     blockedUsers |-> <<BOB>>, skipEmoteOnly |-> TRUE]

\* C26: shouldProcessMessage is true exactly when none of the five
\* conditions rejects the message; under {enabled, minMessageLength 3,
\* blockedUsers [bob]}, bob/'hi there' is rejected by the blocklist alone,
\* alice/'hi' by the length alone, and alice/'hello' passes.
C26_FilterPredicate ==
    applied =>
        /\ result <=> (Rejections(arg.settings, arg.message) = {})
        /\ (arg.settings = ScenarioSettings /\ ~arg.message.isBot) =>
              /\ (arg.message.username = BOB /\ arg.message.message = HI_THERE) =>
                    (~result /\ Rejections(arg.settings, arg.message) = {"blocked"})
              /\ (arg.message.username = ALICE /\ arg.message.message = HI) =>
                    (~result /\ Rejections(arg.settings, arg.message) = {"length"})
              /\ (arg.message.username = ALICE /\ arg.message.message = HELLO) => result

\* The filter has been applied to bob/'hi there' under the scenario settings.
C26_Witness ==
    /\ applied
    /\ arg.settings = ScenarioSettings
    /\ arg.message = [username |-> BOB, message |-> HI_THERE, isBot |-> FALSE]
    /\ ~result

\* C30: the volume, rate and pitch of every configured utterance lie in
\* [0, 1], [0.1, 10] and [0, 2] (in hundredths), whatever was passed to the
\* constructor, updateSettings or the setters; the setters store the nearest
\* value of the range, which is the value passed if it lies in the range.
C30_ClampedNumbers ==
    /\ applied =>
          /\ result.volume \in 0..100
          /\ result.rate \in 10..1000
          /\ result.pitch \in 0..200
    /\ \A v \in NumChoices :
          /\ setVolume(arg, v).volume = (IF v < 0 THEN 0 ELSE IF v > 100 THEN 100 ELSE v)
          /\ setRate(arg, v).rate = (IF v < 10 THEN 10 ELSE IF v > 1000 THEN 1000 ELSE v)
          /\ setPitch(arg, v).pitch = (IF v < 0 THEN 0 ELSE IF v > 200 THEN 200 ELSE v)

\* An utterance has been configured while the stored settings were all out
\* of range (stored through the constructor or updateSettings).
C30_Witness ==
    /\ applied
    /\ arg = [volume |-> 150, rate |-> 5, pitch |-> -50]
    /\ result = [volume |-> 100, rate |-> 10, pitch |-> 0]

\* C29: while the queue has an active item or a non-empty backlog, a
\* testSpeak() from the presentation layer hands no utterance to the
\* narration engine and leaves the engine's busy state as it is.
C29_QueueOwnsEngine ==
    (micro = <<>> /\ (currentItem # Null \/ queue # <<>>)) =>
        \A t \in Texts :
            LET r == testSpeak(St, t)
            IN  /\ r.engineQ = engineQ
                /\ r.speaking = speaking
                /\ r.currentUtterance = currentUtterance

\* C24: each chat:message event gives rise to at most one call of
\* QueueManager.add: no message is handed to add twice, whatever renders,
\* trims of the history and changes of the connected flag follow it.
C24_AtMostOneAdd ==
    \A i, j \in DOMAIN added : added[i] = added[j] => i = j

\* The ids of a sequence of submissions, each at its first occurrence.
RECURSIVE firstOccurrences(_)
firstOccurrences(subs) ==
    IF subs = <<>> THEN <<>>
    ELSE LET front == firstOccurrences(SubSeq(subs, 1, Len(subs) - 1))
             sub == subs[Len(subs)]
         IN  IF \E i \in DOMAIN front : front[i] = sub THEN front
             ELSE Append(front, sub)

\* The ids of the messages emitted so far that pass the filter, in the order
\* of their events.
RECURSIVE passingIds(_)
passingIds(ms) ==
    IF ms = <<>> THEN <<>>
    ELSE IF shouldProcessMessage(ttsSettings, Head(ms))
         THEN <<Head(ms).id>> \o passingIds(Tail(ms))
         ELSE passingIds(Tail(ms))

\* C25: once every dispatched action has been rendered, the messages that
\* were submitted to QueueManager.add are exactly the emitted messages that
\* pass the filter, in the order of their events; a message that fails the
\* filter is never submitted.
C25_FilteredInOrder ==
    /\ \A i \in DOMAIN added :
            \E k \in DOMAIN passingIds(messages) : passingIds(messages)[k] = added[i]
    /\ (pending = <<>> /\ Len(messages) = emitted) =>
            firstOccurrences(added) = passingIds(messages)

\* The queue is stalled: items wait in the backlog, no item is active, the
\* queue is not paused (isProcessing is set), and nothing is pending that
\* could call processNext: no timer, no rejection, no utterance in the engine.
\* The end or error of a cancelled utterance finds currentItem null and
\* returns at the guard of handleTTSEnded / handleTTSError.
Stalled ==
    /\ queue # <<>>
    /\ currentItem = Null
    /\ isProcessing
    /\ timers = 0
    /\ micro = <<>>
    /\ engineQ = <<>>

\* C31: the queue never stalls: whenever the backlog is non-empty, no item
\* is active and pause() is not in effect, something is pending that hands
\* the head of the backlog to the engine without a further caller command.
C31_NeverStalls == ~Stalled

\* The client waits after a failure it did not ask for.
Waiting ==
    /\ connectionStatus \in {"error", "disconnected"}
    /\ ~isIntentionalDisconnect
    /\ reconnectAttempts < maxReconnectAttempts
    /\ ~ChatInit

StaleResults ==
    {oldWsOpens(Ch) : st \in {s \in {"connecting"} : old[s] > 0}}
    \cup {oldWsErrors(Ch, st) : st \in {s \in {"connecting", "open", "failing"} : old[s] > 0}}
    \cup {oldWsCloses(Ch, st) : st \in {s \in {"open", "errored", "closing"} : old[s] > 0}}
    \cup {oldWsMessage(Ch, data) :
            data \in {d \in DataBlocks : old["open"] + old["closing"] > 0}}

ChatEvents == {"chat:connected", "chat:disconnected", "chat:error", "chat:message"}

\* The transports that are connecting or open.
LiveTransports ==
    (IF ws \in {"connecting", "open"} THEN 1 ELSE 0) + old["connecting"] + old["open"]

\* C33: the client holds at most one live transport whose events act on it:
\* an event of a transport that was superseded or dropped does not change
\* the status, does not clear the reference to the current transport, arms
\* no reconnect timer and emits no event; no transport is opened while
\* another one is connecting or open.
C33_OneLiveTransport ==
    /\ \A r \in StaleResults :
            /\ r.connectionStatus = connectionStatus
            /\ r.ws = ws
            /\ r.rtimers = rtimers
            /\ \A k \in DOMAIN r.trace : r.trace[k].name \notin ChatEvents
    /\ LiveTransports <= 1

\* What can happen after a pause() in the current state and before a
\* resume(): a timer that was pending fires; a message is added and the
\* timer of add() fires; the end or error event of the stopped utterance
\* arrives; the active item is removed and the timer of remove() fires.
AfterPause ==
    LET p == pause(St)
    IN  {[p |-> p, r |-> timerFires(p)] : x \in {y \in {1} : p.timers > 0}}
        \cup {[p |-> p, r |-> timerFires(add([p EXCEPT !.timers = 0], nextId + 1, t))] :
                t \in {y \in Texts : nextId < MaxItems}}
        \cup {[p |-> p, r |-> staleEnds(p, u)] : u \in p.stale}
        \cup {[p |-> p, r |-> staleFails(p, u)] : u \in p.stale}
        \cup {[p |-> p, r |-> timerFires([remove(p, p.currentItem).s EXCEPT !.timers = 1])] :
                x \in {y \in {1} : p.currentItem # Null}}

\* C34: pause() prevents the next narration: between a pause() and the next
\* resume() no item is handed to the engine, whatever happens in between
\* (add() of new messages, the end or error callback of the stopped
\* utterance, remove() of the active item).
C34_PausePreventsNext ==
    \A a \in AfterPause :
        /\ Range(a.r.engineQ) \subseteq Range(a.p.engineQ)
        /\ a.r.speakLog = a.p.speakLog

\* The queue is idle with at least two pending items, a processNext timer is
\* pending and speak() will accept the first item.
TwoWaiting ==
    /\ ~isProcessing
    /\ currentItem = Null
    /\ Len(queue) >= 2
    /\ timers > 0
    /\ micro = <<>>
    /\ enabled
    /\ currentUtterance = NoUtterance
    /\ preprocessMessage(Head(queue).text) # ""

\* C35: the queue advances to the next item only on a tts:ended or
\* tts:error notification (or a rejected speak() promise): when the timer
\* fires with two items waiting and speak() resolves, only the first is
\* handed to the engine and the second stays pending, also when further
\* timers fire; and while an item is active and the queue is processing, a
\* step hands an item to speak() only if it is an end or error event of the
\* engine or the delivery of a rejection.
C35_AdvanceOnlyOnCompletion ==
    /\ [](TwoWaiting =>
            LET r == timerFires(St)
                r2 == IF r.timers > 0 THEN timerFires(r) ELSE r
            IN  /\ r.speakLog = Append(speakLog, Head(queue).id)
                /\ r.queue = Tail(queue)
                /\ r.currentItem = Head(queue).id
                /\ r.micro = <<>>
                /\ r2.speakLog = r.speakLog
                /\ r2.queue = r.queue)
    /\ [][(currentItem # Null /\ isProcessing /\ speakLog' # speakLog)
            => (EngineEnd \/ EngineError \/ StaleEnd \/ StaleError \/ Rejection)]_vars

\* add(m1), add(m2), every timer has fired and no end notification has
\* arrived: m1 is in the engine and m2 is still pending.
C35_Witness ==
    /\ speakLog = <<1>>
    /\ currentItem = 1
    /\ ids(queue) = <<2>>
    /\ timers = 0
    /\ Len(engineQ) = 1
    /\ stale = {}

\* C36: a queue command with no target reports false and changes nothing:
\* remove(id) with an id that is neither the active item's nor a pending
\* item's, and skip() while no item is being narrated (no active item, or
\* the engine is silent), return false, leave the backlog, currentItem and
\* isProcessing as they are, do not call stop() and emit no event.
C36_NoTargetNoChange ==
    /\ \A itemId \in KnownIds :
            (itemId # currentItem /\ \A k \in DOMAIN queue : queue[k].id # itemId)
            => LET r == remove(St, itemId)
               IN  ~r.ret /\ r.s = St
    /\ (currentItem = Null \/ ~speaking)
            => LET r == skip(St)
               IN  ~r.ret /\ r.s = St

\* Item 1 has been narrated to its end and another item waits: remove(1)
\* and skip() have no target.
C36_Witness ==
    /\ status[1] = "completed"
    /\ currentItem = Null
    /\ queue # <<>>
    /\ ~speaking

\* C37: TTSService.speak(item) rejects when narration is disabled or not
\* supported, and rejects when another utterance is current; in both cases
\* nothing is handed to the speech engine, the current utterance is
\* unchanged and no tts:started event is emitted.
C37_SpeakRejects ==
    \A supported \in BOOLEAN, i \in ItemIds \cup {TestId}, t \in Texts :
        (~supported \/ ~enabled \/ currentUtterance # NoUtterance)
        => LET r == speakOn(supported, St, i, t)
           IN  /\ ~r.ok
               /\ r.s.engineQ = engineQ
               /\ r.s.speaking = speaking
               /\ r.s.currentUtterance = currentUtterance
               /\ \A k \in DOMAIN r.s.trace : r.s.trace[k].name # "tts:started"

\* processNext called speak() for an item while a test utterance was
\* current: the promise was rejected and the rejection is on its way.
C37_Witness ==
    /\ micro # <<>>
    /\ enabled
    /\ currentUtterance # NoUtterance
    /\ currentUtterance.item = TestId
    /\ Len(engineQ) = 1

\* C38: whenever the connection status is connected, reconnectAttempts is 0;
\* a reconnect timer that was armed before a manual connect() succeeded does
\* not leave the client connected with a non-zero attempt count.
C38_ConnectedMeansNoAttempts ==
    connectionStatus = "connected" => reconnectAttempts = 0

\* C39: each queue item is handed to TTSService.speak at most once over its
\* lifetime, for every sequence of add, remove, skip, clear, pause, resume
\* and engine callbacks; an item whose narration was stopped is never
\* narrated again.
C39_SpokenAtMostOnce ==
    \A j, k \in DOMAIN speakLog : speakLog[j] = speakLog[k] => j = k

\* The narration of an item was stopped (its cancelled utterance has still
\* to report) and another item has been handed to speak() since.
C39_Witness ==
    /\ Len(speakLog) >= 2
    /\ \E u \in stale : u.item = speakLog[1]
====
